---- MODULE Spec2Model ----
(***************************************************************************)
(* Model of the AMT scenario generator: ScenarioScheduler (scheduler.py),  *)
(* ScenarioBuilder (builder.py), TimelineState (timeline.py) and the       *)
(* application factory (application.py).                                   *)
(*                                                                         *)
(* Python dicts are modelled as sequences of records in insertion order    *)
(* (every stored value carries its key in the field id); Python lists are  *)
(* sequences.  A raised exception or failed assert is modelled by the      *)
(* flag ok = FALSE of the threaded context, which every later primitive    *)
(* propagates unchanged (the exception unwinds the whole run).             *)
(***************************************************************************)
EXTENDS Naturals, Integers, Sequences, FiniteSets, TLC

(***************************************************************************)
(* Bounds of the model.                                                    *)
(***************************************************************************)
MaxApps == 3
MaxTime == 3

(***************************************************************************)
(* Generic helpers for Python containers.                                  *)
(***************************************************************************)
Range(s) == {s[i] : i \in DOMAIN s}

Contains(s, v) == \E i \in DOMAIN s : s[i] = v

\* list.remove(v): drops the first occurrence of v
RemoveFirst(s, v) ==
    LET i == CHOOSE j \in DOMAIN s : s[j] = v /\ \A k \in 1..(j - 1) : s[k] # v
    IN  [j \in 1..(Len(s) - 1) |-> IF j < i THEN s[j] ELSE s[j + 1]]

\* dict keyed by the field id of its values
Keys(d) == {d[i].id : i \in DOMAIN d}

HasKey(d, k) == \E i \in DOMAIN d : d[i].id = k

Get(d, k) == d[CHOOSE i \in DOMAIN d : d[i].id = k]

\* d[k] = v : replaces in place when k is present, appends otherwise
Put(d, k, v) ==
    IF HasKey(d, k)
    THEN [i \in DOMAIN d |-> IF d[i].id = k THEN v ELSE d[i]]
    ELSE Append(d, v)

\* del d[k]
Del(d, k) == SelectSeq(d, LAMBDA e : e.id # k)

\* min(seq, key): the first element of minimal key, as Python's min
ArgMin(s, key(_)) ==
    s[CHOOSE i \in DOMAIN s :
          /\ \A j \in DOMAIN s : key(s[i]) <= key(s[j])
          /\ \A j \in 1..(i - 1) : key(s[j]) > key(s[i])]

\* sorted(seq, key): stable, equal keys keep their order
Sorted(s, key(_)) ==
    LET rank(i) == Cardinality({j \in DOMAIN s :
                        \/ key(s[j]) < key(s[i])
                        \/ (key(s[j]) = key(s[i]) /\ j < i)}) + 1
    IN  [r \in DOMAIN s |-> s[CHOOSE i \in DOMAIN s : rank(i) = r]]

(***************************************************************************)
(* Topology and policy handed over by the ScenarioGenerator.               *)
(* Each link is <<u, v, is_multicast_enabled>>, in the order add_edge      *)
(* sees them.  graph is the full graph, mgraph the subgraph_view that      *)
(* keeps every node and only the multicast-enabled edges.                  *)
(*   island of host1 : host1 - relay1, host1 - relay2, host1 - sink0       *)
(*   island of host2 : host2 - relay3                                      *)
(*   island B        : gateway3 - gateway1 - sink1, gateway1 - relay4,     *)
(*                     gateway1 - relay5                                   *)
(*   island C        : gateway2 - sink2, host3 - sink2                     *)
(***************************************************************************)
topology ==
    << <<"gateway3", "gateway1", TRUE>>,
       <<"host1", "relay1", TRUE>>,
       <<"host1", "relay2", TRUE>>,
       <<"host1", "sink0", TRUE>>,
       <<"host2", "relay3", TRUE>>,
       <<"gateway1", "sink1", TRUE>>,
       <<"gateway1", "relay4", TRUE>>,
       <<"gateway2", "sink2", TRUE>>,
       <<"relay1", "gateway1", FALSE>>,
       <<"relay2", "gateway2", FALSE>>,
       <<"relay3", "gateway1", FALSE>>,
       <<"relay3", "gateway2", FALSE>>,
       <<"host3", "sink2", TRUE>>,
       <<"gateway1", "relay5", TRUE>>,
       <<"relay5", "gateway2", FALSE>> >>

\* G.nodes(): nodes in order of first appearance in add_edge
RECURSIVE NodesFrom(_, _)
NodesFrom(i, acc) ==
    IF i > Len(topology) THEN acc
    ELSE LET u == topology[i][1]
             v == topology[i][2]
             a == IF Contains(acc, u) THEN acc ELSE Append(acc, u)
             b == IF Contains(a, v) THEN a ELSE Append(a, v)
         IN  NodesFrom(i + 1, b)

nodes == NodesFrom(1, <<>>)

NodeSet == Range(nodes)

graph == {<<e[1], e[2]>> : e \in Range(topology)}

mgraph == {<<e[1], e[2]>> : e \in {x \in Range(topology) : x[3]}}

Adjacent(G, u) == {v \in NodeSet : <<u, v>> \in G \/ <<v, u>> \in G}

\* nodes within n hops of u
RECURSIVE Ball(_, _, _)
Ball(G, u, n) ==
    IF n = 0 THEN {u}
    ELSE UNION {Adjacent(G, w) \cup {w} : w \in Ball(G, u, n - 1)}

HasPathIn(G, u, v) == v \in Ball(G, u, Len(nodes))

PathLengthIn(G, u, v) ==
    IF HasPathIn(G, u, v)
    THEN CHOOSE n \in 0..Len(nodes) :
             v \in Ball(G, u, n) /\ \A m \in 0..(n - 1) : v \notin Ball(G, u, m)
    ELSE Len(nodes) + 1

\* tables computed once
mpath == [u \in NodeSet |-> [v \in NodeSet |-> HasPathIn(mgraph, u, v)]]

glen == [u \in NodeSet |-> [v \in NodeSet |-> PathLengthIn(graph, u, v)]]

mlen == [u \in NodeSet |-> [v \in NodeSet |-> PathLengthIn(mgraph, u, v)]]

\* nx.has_path(self.mgraph, u, v)
has_path(u, v) == mpath[u][v]

\* nx.shortest_path_length(self.graph, u, v)
graph_length(u, v) == glen[u][v]

\* nx.shortest_path_length(self.mgraph, u, v)
mgraph_length(u, v) == mlen[u][v]

\* str.startswith(node, prefix) on the node names of the topology
startswith(node, prefix) ==
    CASE prefix = "relay" -> node \in {"relay1", "relay2", "relay3", "relay4", "relay5"}
      [] prefix = "gateway" -> node \in {"gateway1", "gateway2", "gateway3"}
      [] prefix = "host" -> node \in {"host1", "host2", "host3"}
      [] prefix = "sink" -> node \in {"sink0", "sink1", "sink2"}
      [] OTHER -> FALSE

\* policy.relay_policy.max_connections
max_connections == 1

(***************************************************************************)
(* application.py: entities and the id factory.                            *)
(* An AppId "<prefix>#<counter>" is the pair <<prefix, counter>>.          *)
(***************************************************************************)
HostApp(id, node, address, sinks) ==
    [cls |-> "HostApp", id |-> id, node |-> node, address |-> address, sinks |-> sinks]

SinkApp(id, node, address) ==
    [cls |-> "SinkApp", id |-> id, node |-> node, address |-> address]

RelayApp(id, node, source_id) ==
    [cls |-> "RelayApp", id |-> id, node |-> node, source_id |-> source_id]

GatewayApp(id, node, relay_id, sinks) ==
    [cls |-> "GatewayApp", id |-> id, node |-> node, relay_id |-> relay_id, sinks |-> sinks]

Tunnel(source_id, relay_id, gateway_id) ==
    [source_id |-> source_id, relay_id |-> relay_id, gateway_id |-> gateway_id]

\* variant: the counter is read but not advanced
_create_id_stale(cnt, prefix) == [counter |-> cnt, id |-> <<prefix, cnt + 1>>]

\* global counter; counter += 1; return f"{prefix}#{counter}"
\* variant: the id is formatted before the counter is advanced
_create_id_early(cnt, prefix) == [counter |-> cnt + 1, id |-> <<prefix, cnt>>]

_create_id(cnt, prefix) == [counter |-> cnt + 1, id |-> <<prefix, cnt + 1>>]

(***************************************************************************)
(* timeline.py: TimelineState.                                             *)
(* A context c threads through every primitive:                            *)
(*   c.ok       FALSE once an assert failed or an exception was raised     *)
(*   c.counter  the module-global id counter of application.py             *)
(*   c.created  every id the factory has returned so far (ghost)           *)
(*   c.unbinds  the unbind calls made so far in this phase (ghost)         *)
(*   c.admits   the _running_sink calls made so far in this phase (ghost)  *)
(*   c.s        the TimelineState; mapping_ids maps an id to the name of   *)
(*              the dict it was registered in                              *)
(***************************************************************************)
TimelineState ==
    [mapping_ids |-> <<>>,
     running_hosts |-> <<>>,
     running_sinks |-> <<>>,
     running_relays |-> <<>>,
     running_gateways |-> <<>>,
     running_tunnels |-> <<>>]

Context(s, cnt, ids) ==
    [ok |-> TRUE, counter |-> cnt, created |-> ids, unbinds |-> <<>>, admits |-> <<>>,
     s |-> s]

Fail(c) == [c EXCEPT !.ok = FALSE]

_safe_assign(c, d, k, v) ==
    IF ~c.ok THEN c
    ELSE IF HasKey(c.s[d], k) THEN Fail(c)
    ELSE [c EXCEPT !.s = [c.s EXCEPT !.mapping_ids = (k :> d) @@ c.s.mapping_ids,
                                     ![d] = Put(c.s[d], k, v)]]

\* variant: the entry of mapping_ids is left behind
_safe_delete_keeps_mapping(c, d, k) ==
    IF ~c.ok THEN c
    ELSE IF ~HasKey(c.s[d], k) THEN Fail(c)
    ELSE [c EXCEPT !.s = [c.s EXCEPT ![d] = Del(c.s[d], k)]]

\* variant: a key that is not there is skipped silently
_safe_delete_unchecked(c, d, k) ==
    IF ~c.ok THEN c
    ELSE IF ~HasKey(c.s[d], k) THEN c
    ELSE [c EXCEPT !.s = [c.s EXCEPT
              !.mapping_ids = [x \in (DOMAIN c.s.mapping_ids) \ {k} |-> c.s.mapping_ids[x]],
              ![d] = Del(c.s[d], k)]]

_safe_delete(c, d, k) ==
    IF ~c.ok THEN c
    ELSE IF ~HasKey(c.s[d], k) THEN Fail(c)
    ELSE IF k \notin DOMAIN c.s.mapping_ids THEN Fail(c)
    ELSE [c EXCEPT !.s = [c.s EXCEPT
              !.mapping_ids = [x \in (DOMAIN c.s.mapping_ids) \ {k} |-> c.s.mapping_ids[x]],
              ![d] = Del(c.s[d], k)]]

_safe_replace(c, d, k, v) ==
    IF ~c.ok THEN c
    ELSE IF ~HasKey(c.s[d], k) THEN Fail(c)
    ELSE [c EXCEPT !.s = [c.s EXCEPT !.mapping_ids = (k :> d) @@ c.s.mapping_ids,
                                     ![d] = Put(c.s[d], k, v)]]

\* self.mapping_ids[id][id]; callers test Resolvable first (KeyError otherwise)
Resolvable(s, id) == id \in DOMAIN s.mapping_ids /\ HasKey(s[s.mapping_ids[id]], id)

resolve(s, id) == Get(s[s.mapping_ids[id]], id)

schedule(c, app) ==
    IF app.cls = "HostApp" THEN _safe_assign(c, "running_hosts", app.id, app)
    ELSE IF app.cls = "SinkApp" THEN _safe_assign(c, "running_sinks", app.id, app)
    ELSE IF app.cls = "GatewayApp" THEN _safe_assign(c, "running_gateways", app.id, app)
    ELSE c

\* variant: nothing is deregistered
shutdown_ignored(c, app) == c

shutdown(c, app) ==
    IF app.cls = "HostApp" THEN _safe_delete(c, "running_hosts", app.id)
    ELSE IF app.cls = "SinkApp" THEN _safe_delete(c, "running_sinks", app.id)
    ELSE c

join(c, host_id, sink_id) ==
    IF ~c.ok THEN c
    ELSE IF ~HasKey(c.s.running_hosts, host_id) THEN Fail(c)
    ELSE LET host == Get(c.s.running_hosts, host_id)
         IN  IF Contains(host.sinks, sink_id) THEN Fail(c)
             ELSE _safe_replace(c, "running_hosts", host_id,
                                [host EXCEPT !.sinks = Append(host.sinks, sink_id)])

leave(c, host_id, sink_id) ==
    IF ~c.ok THEN c
    ELSE IF ~HasKey(c.s.running_hosts, host_id) THEN Fail(c)
    ELSE LET host == Get(c.s.running_hosts, host_id)
         IN  IF ~Contains(host.sinks, sink_id) THEN Fail(c)
             ELSE _safe_replace(c, "running_hosts", host_id,
                                [host EXCEPT !.sinks = RemoveFirst(host.sinks, sink_id)])

bind(c, gateway_id, sink_id) ==
    IF ~c.ok THEN c
    ELSE IF ~HasKey(c.s.running_gateways, gateway_id) THEN Fail(c)
    ELSE LET gateway == Get(c.s.running_gateways, gateway_id)
         IN  IF Contains(gateway.sinks, sink_id) THEN Fail(c)
             ELSE _safe_replace(c, "running_gateways", gateway_id,
                                [gateway EXCEPT !.sinks = Append(gateway.sinks, sink_id)])

\* first tunnel with tunnel.gateway_id == gateway_id or tunnel.relay_id == relay_id;
\* an argument left out is None, written <<>> here (no id equals it)
HasTunnel(s, relay_id, gateway_id) ==
    \E i \in DOMAIN s.running_tunnels :
        s.running_tunnels[i].gateway_id = gateway_id \/ s.running_tunnels[i].relay_id = relay_id

\* variant: the first Tunnel is returned whatever its ids
_find_tunnel_first(s, relay_id, gateway_id) == s.running_tunnels[1]

_find_tunnel(s, relay_id, gateway_id) ==
    s.running_tunnels[CHOOSE i \in DOMAIN s.running_tunnels :
        /\ s.running_tunnels[i].gateway_id = gateway_id \/ s.running_tunnels[i].relay_id = relay_id
        /\ \A j \in 1..(i - 1) :
              ~(s.running_tunnels[j].gateway_id = gateway_id \/ s.running_tunnels[j].relay_id = relay_id)]

\* variant: the cascade leaves the Tunnel in running_tunnels
unbind_body_keeps_tunnel(c, gateway_id, sink_id) ==
    IF ~HasKey(c.s.running_gateways, gateway_id) THEN Fail(c)
    ELSE LET gateway == Get(c.s.running_gateways, gateway_id)
         IN  IF ~Contains(gateway.sinks, sink_id) THEN Fail(c)
             ELSE LET sinks == RemoveFirst(gateway.sinks, sink_id)
                  IN  IF sinks = <<>>
                      THEN IF ~HasTunnel(c.s, <<>>, gateway_id) THEN Fail(c)
                           ELSE LET tunnel == _find_tunnel(c.s, <<>>, gateway_id)
                                    c1 == _safe_delete(c, "running_gateways", gateway.id)
                                IN  _safe_delete(c1, "running_relays", tunnel.relay_id)
                      ELSE _safe_replace(c, "running_gateways", gateway.id,
                                         [gateway EXCEPT !.sinks = sinks])

\* variant: the cascade runs whether or not Sinks remain
unbind_body_always_cascades(c, gateway_id, sink_id) ==
    IF ~HasKey(c.s.running_gateways, gateway_id) THEN Fail(c)
    ELSE LET gateway == Get(c.s.running_gateways, gateway_id)
         IN  IF ~Contains(gateway.sinks, sink_id) THEN Fail(c)
             ELSE IF ~HasTunnel(c.s, <<>>, gateway_id) THEN Fail(c)
             ELSE LET tunnel == _find_tunnel(c.s, <<>>, gateway_id)
                      c1 == _safe_delete(c, "running_gateways", gateway.id)
                      c2 == _safe_delete(c1, "running_relays", tunnel.relay_id)
                  IN  IF ~c2.ok THEN c2
                      ELSE [c2 EXCEPT !.s.running_tunnels =
                                RemoveFirst(c2.s.running_tunnels, tunnel)]

unbind_body(c, gateway_id, sink_id) ==
    IF ~HasKey(c.s.running_gateways, gateway_id) THEN Fail(c)
    ELSE LET gateway == Get(c.s.running_gateways, gateway_id)
         IN  IF ~Contains(gateway.sinks, sink_id) THEN Fail(c)
             ELSE LET sinks == RemoveFirst(gateway.sinks, sink_id)
                  IN  IF sinks = <<>>
                      THEN IF ~HasTunnel(c.s, <<>>, gateway_id) THEN Fail(c)
                           ELSE LET tunnel == _find_tunnel(c.s, <<>>, gateway_id)
                                    c1 == _safe_delete(c, "running_gateways", gateway.id)
                                    c2 == _safe_delete(c1, "running_relays", tunnel.relay_id)
                                IN  IF ~c2.ok THEN c2
                                    ELSE [c2 EXCEPT !.s.running_tunnels =
                                              RemoveFirst(c2.s.running_tunnels, tunnel)]
                      ELSE _safe_replace(c, "running_gateways", gateway.id,
                                         [gateway EXCEPT !.sinks = sinks])

\* unbind, with the call recorded in c.unbinds
unbind(c, gateway_id, sink_id) ==
    IF ~c.ok THEN c
    ELSE LET r == unbind_body(c, gateway_id, sink_id)
         IN  [r EXCEPT !.unbinds = Append(c.unbinds,
                  [before |-> c.s, gateway_id |-> gateway_id, sink_id |-> sink_id,
                   after |-> r.s, ok |-> r.ok])]

\* returns the context after registration; the entity is the last of its dict
spawn_gateway(c, gateway_node, relay_id) ==
    IF ~c.ok THEN c
    ELSE LET n == _create_id(c.counter, "gateway")
             c1 == [c EXCEPT !.counter = n.counter, !.created = Append(c.created, n.id)]
         IN  _safe_assign(c1, "running_gateways", n.id,
                          GatewayApp(n.id, gateway_node, relay_id, <<>>))

\* variant: the Relay names as its source the entity created right after it
spawn_relay_fed_by_next(c, relay_node, source_id) ==
    IF ~c.ok THEN c
    ELSE LET n == _create_id(c.counter, "relay")
             c1 == [c EXCEPT !.counter = n.counter, !.created = Append(c.created, n.id)]
         IN  _safe_assign(c1, "running_relays", n.id,
                          RelayApp(n.id, relay_node, <<"gateway", n.id[2] + 1>>))

spawn_relay(c, relay_node, source_id) ==
    IF ~c.ok THEN c
    ELSE LET n == _create_id(c.counter, "relay")
             c1 == [c EXCEPT !.counter = n.counter, !.created = Append(c.created, n.id)]
         IN  _safe_assign(c1, "running_relays", n.id, RelayApp(n.id, relay_node, source_id))

\* variant: the Tunnel is registered but the Sink is not appended
connect_without_sink(c, source_id, gateway_id, relay_id, sink_id) ==
    IF ~c.ok THEN c
    ELSE IF ~HasKey(c.s.running_gateways, gateway_id) THEN Fail(c)
    ELSE LET tunnel == Tunnel(source_id, relay_id, gateway_id)
         IN  IF Contains(c.s.running_tunnels, tunnel) THEN Fail(c)
             ELSE [c EXCEPT !.s.running_tunnels = Append(c.s.running_tunnels, tunnel)]

connect(c, source_id, gateway_id, relay_id, sink_id) ==
    IF ~c.ok THEN c
    ELSE IF ~HasKey(c.s.running_gateways, gateway_id) THEN Fail(c)
    ELSE LET gateway == Get(c.s.running_gateways, gateway_id)
         IN  IF Contains(gateway.sinks, sink_id) THEN Fail(c)
             ELSE LET c1 == _safe_replace(c, "running_gateways", gateway_id,
                                          [gateway EXCEPT !.sinks = Append(gateway.sinks, sink_id)])
                      tunnel == Tunnel(source_id, relay_id, gateway_id)
                  IN  IF ~c1.ok THEN c1
                      ELSE IF Contains(c1.s.running_tunnels, tunnel) THEN Fail(c1)
                      ELSE [c1 EXCEPT !.s.running_tunnels = Append(c1.s.running_tunnels, tunnel)]

(***************************************************************************)
(* builder.py: ScenarioBuilder.                                            *)
(***************************************************************************)
Last(d) == d[Len(d)]

_connected_counts(s, relay_node) ==
    Len(SelectSeq(s.running_relays, LAMBDA relay : relay.node = relay_node))

_is_available_policy(s, relay_node) == _connected_counts(s, relay_node) < max_connections

_relay_length(node, sink_node, host_node) ==
    2 * graph_length(node, sink_node) - mgraph_length(host_node, node)

\* result [ok, host]; depth bounds the recursion as the interpreter's stack does
RECURSIVE _resolve_host_from(_, _, _)
_resolve_host_from(s, gateway_id, depth) ==
    IF depth = 0 THEN [ok |-> FALSE]
    ELSE IF ~HasTunnel(s, <<>>, gateway_id) THEN [ok |-> FALSE]
    ELSE LET tunnel == _find_tunnel(s, <<>>, gateway_id)
         IN  IF ~HasKey(s.running_relays, tunnel.relay_id) THEN [ok |-> FALSE]
             ELSE LET relay == Get(s.running_relays, tunnel.relay_id)
                  IN  IF ~Resolvable(s, relay.source_id) THEN [ok |-> FALSE]
                      ELSE LET source == resolve(s, relay.source_id)
                           IN  IF source.cls = "HostApp" THEN [ok |-> TRUE, host |-> source]
                               ELSE IF source.cls = "GatewayApp"
                               THEN _resolve_host_from(s, source.id, depth - 1)
                               ELSE [ok |-> FALSE]

_resolve_host(s, gateway_id) ==
    _resolve_host_from(s, gateway_id, Len(s.running_tunnels) + 1)

\* the live Gateways, in iteration order, whose node reaches the Sink's node
ReachableGateways(s, sink) ==
    SelectSeq(s.running_gateways, LAMBDA gateway : has_path(gateway.node, sink.node))

\* TRUE after binding the Sink to the first such Gateway
_has_path_to_gateway(c, sink) ==
    IF ReachableGateways(c.s, sink) = <<>> THEN c
    ELSE bind(c, ReachableGateways(c.s, sink)[1].id, sink.id)

ReachableHosts(s, sink) ==
    SelectSeq(s.running_hosts, LAMBDA host : has_path(host.node, sink.node))

RECURSIVE JoinAll(_, _, _, _)
JoinAll(c, hosts, i, sink) ==
    IF i > Len(hosts) THEN c ELSE JoinAll(join(c, hosts[i].id, sink.id), hosts, i + 1, sink)

\* variant: the loop does not return after the first join
_is_reachable_host_all(c, sink) == JoinAll(c, ReachableHosts(c.s, sink), 1, sink)

\* TRUE after joining the Sink to the first such Host
_is_reachable_host(c, sink) ==
    IF ReachableHosts(c.s, sink) = <<>> THEN c
    ELSE join(c, ReachableHosts(c.s, sink)[1].id, sink.id)

\* callers test running_hosts # <<>> first (min of an empty list raises)
_find_host(s, sink) ==
    ArgMin(s.running_hosts, LAMBDA host : graph_length(host.node, sink.node))

GatewayNodes(sink) ==
    SelectSeq(nodes, LAMBDA node : startswith(node, "gateway") /\ has_path(node, sink.node))

\* variant: the first gateway node that reaches the Sink, not the nearest
_find_amt_gateway_first(c, sink, relay) ==
    IF ~c.ok THEN c
    ELSE IF GatewayNodes(sink) = <<>> THEN Fail(c)
    ELSE spawn_gateway(c, GatewayNodes(sink)[1], relay.id)

_find_amt_gateway(c, sink, relay) ==
    IF ~c.ok THEN c
    ELSE IF GatewayNodes(sink) = <<>> THEN Fail(c)
    ELSE spawn_gateway(c, ArgMin(GatewayNodes(sink), LAMBDA node : mgraph_length(node, sink.node)),
                       relay.id)

\* itertools.product(a, b) in its iteration order
product(a, b) ==
    [k \in 1..(Len(a) * Len(b)) |->
        <<a[((k - 1) \div Len(b)) + 1], b[((k - 1) % Len(b)) + 1]>>]

\* available_multicast_relay_nodes: the relay nodes the Host reaches, by cost
RankedRelayNodes(host, sink) ==
    Sorted(SelectSeq(nodes, LAMBDA node :
               startswith(node, "relay") /\ has_path(host.node, node)),
           LAMBDA node : _relay_length(node, sink.node, host.node))

\* gateways: those whose upstream Host sends to the Sink's address
MatchingGateways(s, sink) ==
    SelectSeq(s.running_gateways, LAMBDA gateway :
        _resolve_host(s, gateway.id).host.address = sink.address)

\* the relay nodes of the full graph that were not ranked
OtherRelayNodes(ranked) ==
    SelectSeq(nodes, LAMBDA node : startswith(node, "relay") /\ ~Contains(ranked, node))

\* the (gateway, relay_node) pairs the min of the secondary search ranges over
AlternativePairs(s, sink, ranked) ==
    SelectSeq(product(MatchingGateways(s, sink), OtherRelayNodes(ranked)), LAMBDA t :
        has_path(t[1].node, t[2]) /\ _is_available_policy(s, t[2]))

\* result [c, source, relay] of the discovery, c being the context after spawn_relay
Spawned(c, source) ==
    [c |-> c, source |-> source,
     relay |-> IF c.ok THEN Last(c.s.running_relays) ELSE <<>>]

\* return source, snapshot.spawn_relay(relay_node, source.id)
SpawnFrom(c, source, relay_node) == Spawned(spawn_relay(c, relay_node, source.id), source)

\* variant: the default node is the least loaded of all the relay nodes
SecondarySearch_global(c, host, sink, ranked, pairs) ==
    IF pairs = <<>>
    THEN SpawnFrom(c, host,
                   ArgMin(SelectSeq(nodes, LAMBDA node : startswith(node, "relay")),
                          LAMBDA node : _connected_counts(c.s, node)))
    ELSE SpawnFrom(c,
                   ArgMin(pairs, LAMBDA t : _relay_length(t[2], sink.node, t[1].node))[1],
                   ArgMin(pairs, LAMBDA t : _relay_length(t[2], sink.node, t[1].node))[2])

\* variant: min() has no default and raises when no pair qualifies
SecondarySearch_no_default(c, host, sink, ranked, pairs) ==
    IF pairs = <<>>
    THEN [c |-> Fail(c)]
    ELSE SpawnFrom(c,
                   ArgMin(pairs, LAMBDA t : _relay_length(t[2], sink.node, t[1].node))[1],
                   ArgMin(pairs, LAMBDA t : _relay_length(t[2], sink.node, t[1].node))[2])

\* variant: the first pair is taken, not the cheapest
SecondarySearch_first(c, host, sink, ranked, pairs) ==
    IF pairs = <<>>
    THEN SpawnFrom(c, host, ArgMin(ranked, LAMBDA node : _connected_counts(c.s, node)))
    ELSE SpawnFrom(c, pairs[1][1], pairs[1][2])

\* min(pairs, key=..., default=(host, error_relay_node)) and the spawn that follows
SecondarySearch(c, host, sink, ranked, pairs) ==
    IF pairs = <<>>
    THEN SpawnFrom(c, host, ArgMin(ranked, LAMBDA node : _connected_counts(c.s, node)))
    ELSE SpawnFrom(c,
                   ArgMin(pairs, LAMBDA t : _relay_length(t[2], sink.node, t[1].node))[1],
                   ArgMin(pairs, LAMBDA t : _relay_length(t[2], sink.node, t[1].node))[2])

Discovery(c, host, sink, ranked) ==
    IF ranked = <<>> THEN [c |-> Fail(c)]
    ELSE IF \E i \in DOMAIN ranked : _is_available_policy(c.s, ranked[i])
    THEN SpawnFrom(c, host,
                   SelectSeq(ranked, LAMBDA node : _is_available_policy(c.s, node))[1])
    ELSE IF \E i \in DOMAIN c.s.running_gateways :
                ~_resolve_host(c.s, c.s.running_gateways[i].id).ok
    THEN [c |-> Fail(c)]
    ELSE SecondarySearch(c, host, sink, ranked, AlternativePairs(c.s, sink, ranked))

\* result [c, source, relay]
_multihop_amt_relay_discovery(c, host, sink) ==
    Discovery(c, host, sink, RankedRelayNodes(host, sink))

\* variant: the source and the relay are passed to connect in each other's place
ConnectSpawned_swapped(c, d, sink) ==
    IF ~c.ok THEN c
    ELSE connect(c, d.relay.id, Last(c.s.running_gateways).id, d.source.id, sink.id)

\* snapshot.connect(source.id, gateway.id, relay.id, sink.id), c being the
\* context after spawn_gateway and d the result of the relay discovery
ConnectSpawned(c, d, sink) ==
    IF ~c.ok THEN c
    ELSE connect(c, d.source.id, Last(c.s.running_gateways).id, d.relay.id, sink.id)

\* gateway = self._find_amt_gateway(snapshot, sink, relay), then connect
GatewayAndConnect(d, sink) ==
    IF ~d.c.ok THEN d.c
    ELSE ConnectSpawned(_find_amt_gateway(d.c, sink, d.relay), d, sink)

\* RFC 7450 version: the best-ranked relay node whatever its load; result
\* [c, source, relay] with the Host as source
_single_amt_relay_discovery(c, host, sink) ==
    IF SelectSeq(nodes, LAMBDA node :
           startswith(node, "relay") /\ has_path(host.node, node)) = <<>>
    THEN [c |-> Fail(c)]
    ELSE SpawnFrom(c, host,
                   ArgMin(SelectSeq(nodes, LAMBDA node :
                              startswith(node, "relay") /\ has_path(host.node, node)),
                          LAMBDA node : _relay_length(node, sink.node, host.node)))

_single_amt_routing(c, sink) ==
    IF ~c.ok THEN c
    ELSE IF c.s.running_hosts = <<>> THEN Fail(c)
    ELSE GatewayAndConnect(_single_amt_relay_discovery(c, _find_host(c.s, sink), sink), sink)

_multihop_amt_routing(c, sink) ==
    IF ~c.ok THEN c
    ELSE IF c.s.running_hosts = <<>> THEN Fail(c)
    ELSE GatewayAndConnect(_multihop_amt_relay_discovery(c, _find_host(c.s, sink), sink), sink)

\* args.multihop: the --multihop / --no-multihop flag of the command line
VARIABLE multihop

\* variant: the flag selects the routing
Admit_by_flag(c, sink) ==
    IF ~c.ok THEN c
    ELSE IF ReachableGateways(c.s, sink) # <<>> THEN _has_path_to_gateway(c, sink)
    ELSE IF ReachableHosts(c.s, sink) # <<>> THEN _is_reachable_host(c, sink)
    ELSE IF ~multihop THEN _single_amt_routing(c, sink)
    ELSE _multihop_amt_routing(c, sink)

\* variant: _running_sink does not return after the bind
Admit_no_return(c, sink) ==
    IF ~c.ok THEN c
    ELSE IF ReachableGateways(c.s, sink) # <<>>
    THEN _is_reachable_host(_has_path_to_gateway(c, sink), sink)
    ELSE IF ReachableHosts(c.s, sink) # <<>> THEN _is_reachable_host(c, sink)
    ELSE _multihop_amt_routing(c, sink)

\* variant: a live Gateway that reaches the Sink is not looked for
Admit_without_reuse(c, sink) ==
    IF ~c.ok THEN c
    ELSE IF ReachableHosts(c.s, sink) # <<>> THEN _is_reachable_host(c, sink)
    ELSE _multihop_amt_routing(c, sink)

\* variant: a reachable Host is preferred to a reachable Gateway
Admit_host_first(c, sink) ==
    IF ~c.ok THEN c
    ELSE IF ReachableHosts(c.s, sink) # <<>> THEN _is_reachable_host(c, sink)
    ELSE IF ReachableGateways(c.s, sink) # <<>> THEN _has_path_to_gateway(c, sink)
    ELSE _multihop_amt_routing(c, sink)

\* _running_sink after snapshot.schedule(sink): the first admission rule that applies
Admit(c, sink) ==
    IF ~c.ok THEN c
    ELSE IF ReachableGateways(c.s, sink) # <<>> THEN _has_path_to_gateway(c, sink)
    ELSE IF ReachableHosts(c.s, sink) # <<>> THEN _is_reachable_host(c, sink)
    ELSE IF FALSE THEN _single_amt_routing(c, sink)
    ELSE _multihop_amt_routing(c, sink)

\* the context r a _running_sink call ends in, with the call recorded in
\* c.admits: before is the TimelineState the call started from
Admitted(c, r, sink) ==
    [r EXCEPT !.admits = Append(c.admits,
        [before |-> c.s, counter |-> c.counter, sink |-> sink, after |-> r.s,
         ok |-> r.ok])]

_running_sink(c, sink) ==
    IF ~c.ok THEN c ELSE Admitted(c, Admit(schedule(c, sink), sink), sink)

RECURSIVE ScheduleHosts(_, _, _)
ScheduleHosts(c, hosts, i) ==
    IF i > Len(hosts) THEN c ELSE ScheduleHosts(schedule(c, hosts[i]), hosts, i + 1)

RECURSIVE RunningSinks(_, _, _)
RunningSinks(c, sinks, i) ==
    IF i > Len(sinks) THEN c ELSE RunningSinks(_running_sink(c, sinks[i]), sinks, i + 1)

\* for host_id, host in action.shutdown_hosts.items(): the assert reads the
\* sinks of the HostApp held by the action
RECURSIVE ShutdownHosts(_, _, _)
ShutdownHosts(c, hosts, i) ==
    IF i > Len(hosts) THEN c
    ELSE IF hosts[i].sinks # <<>> THEN Fail(c)
    ELSE ShutdownHosts(shutdown(c, hosts[i]), hosts, i + 1)

\* variant: the Hosts that stop at the timestamp are retired before the
\* admissions
_running_application_after_retirement(c, action) ==
    RunningSinks(ScheduleHosts(ShutdownHosts(c, action.shutdown_hosts, 1),
                               action.schedule_hosts, 1),
                 action.schedule_sinks, 1)

_running_application(c, action) ==
    RunningSinks(ScheduleHosts(c, action.schedule_hosts, 1), action.schedule_sinks, 1)

\* variant: the scan looks at the first Host only
LeaveHosts_first(c, sink_id, i) ==
    IF ~c.ok \/ c.s.running_hosts = <<>> THEN c
    ELSE IF Contains(c.s.running_hosts[1].sinks, sink_id)
    THEN leave(c, c.s.running_hosts[1].id, sink_id)
    ELSE c

\* for host in snapshot.running_hosts.values(): leave where the sink is listed
RECURSIVE LeaveHosts(_, _, _)
LeaveHosts(c, sink_id, i) ==
    IF ~c.ok \/ i > Len(c.s.running_hosts) THEN c
    ELSE LET host == c.s.running_hosts[i]
         IN  LeaveHosts(IF Contains(host.sinks, sink_id) THEN leave(c, host.id, sink_id) ELSE c,
                        sink_id, i + 1)

\* result [c, commands]; a command is <<gateway, sink>>
RECURSIVE ShutdownSinks(_, _, _, _)
ShutdownSinks(c, sinks, i, commands) ==
    IF ~c.ok \/ i > Len(sinks) THEN [c |-> c, commands |-> commands]
    ELSE LET sink == sinks[i]
             c1 == LeaveHosts(c, sink.id, 1)
             serving == SelectSeq(c1.s.running_gateways,
                                  LAMBDA gateway : Contains(gateway.sinks, sink.id))
             queued == [k \in DOMAIN serving |-> <<serving[k], sink>>]
         IN  ShutdownSinks(shutdown(c1, sink), sinks, i + 1, commands \o queued)

RECURSIVE Unbinds(_, _, _)
Unbinds(c, commands, i) ==
    IF i > Len(commands) THEN c
    ELSE Unbinds(unbind(c, commands[i][1].id, commands[i][2].id), commands, i + 1)

\* variant: the queued unbinds are dropped
_release_application_without_unbinds(c, action) ==
    ShutdownSinks(ShutdownHosts(c, action.shutdown_hosts, 1),
                  action.shutdown_sinks, 1, <<>>).c

\* variant: only the first queued unbind is applied
ApplyCommands_first(r) ==
    IF r.commands = <<>> THEN r.c
    ELSE unbind(r.c, r.commands[1][1].id, r.commands[1][2].id)

\* for gateway, sink in commands: r is the result [c, commands] of the scan
ApplyCommands(r) == Unbinds(r.c, r.commands, 1)

_release_application(c, action) ==
    ApplyCommands(ShutdownSinks(ShutdownHosts(c, action.shutdown_hosts, 1),
                                action.shutdown_sinks, 1, <<>>))

(***************************************************************************)
(* scheduler.py: ScenarioScheduler and timeline.py: Timeline(Action).      *)
(***************************************************************************)
TimelineAction ==
    [schedule_hosts |-> <<>>, schedule_sinks |-> <<>>,
     shutdown_hosts |-> <<>>, shutdown_sinks |-> <<>>]

\* timeline[t] of the defaultdict(Timeline): the entry of time t, made on demand
HasTime(timeline, t) == \E i \in DOMAIN timeline : timeline[i].time = t

Entry(timeline, t) ==
    IF HasTime(timeline, t)
    THEN timeline
    ELSE Append(timeline, [time |-> t, action |-> TimelineAction])

\* Timeline.schedule / Timeline.shutdown: which is "schedule" or "shutdown"
Register(timeline, t, which, app) ==
    LET field == IF app.cls = "HostApp" THEN which \o "_hosts" ELSE which \o "_sinks"
    IN  [i \in DOMAIN Entry(timeline, t) |->
            LET e == Entry(timeline, t)[i]
            IN  IF e.time = t
                THEN [e EXCEPT !.action = [e.action EXCEPT ![field] = Append(e.action[field], app)]]
                ELSE e]

\* result [ok, counter, created, timeline]
RECURSIVE ScheduleConfigs(_, _, _, _, _)
ScheduleConfigs(configs, i, cnt, ids, timeline) ==
    IF i > Len(configs)
    THEN [ok |-> TRUE, counter |-> cnt, created |-> ids, timeline |-> timeline]
    ELSE LET config == configs[i]
         IN  IF config.type \notin {"OnOff", "PacketSink"}
             THEN [ok |-> FALSE, counter |-> cnt, created |-> ids, timeline |-> timeline]
             ELSE LET n == _create_id(cnt, IF config.type = "OnOff" THEN "host" ELSE "sink")
                      app == IF config.type = "OnOff"
                             THEN HostApp(n.id, config.node, config.address, <<>>)
                             ELSE SinkApp(n.id, config.node, config.address)
                      t1 == Register(timeline, config.start, "schedule", app)
                      t2 == Register(t1, config.stop, "shutdown", app)
                  IN  ScheduleConfigs(configs, i + 1, n.counter, Append(ids, n.id), t2)

\* variant: the events are returned in the order their times were first seen
_schedule_unsorted(configs, cnt, ids) == ScheduleConfigs(configs, 1, cnt, ids, <<>>)

_schedule(configs, cnt, ids) ==
    LET r == ScheduleConfigs(configs, 1, cnt, ids, <<>>)
    IN  [r EXCEPT !.timeline = Sorted(r.timeline, LAMBDA t : t.time)]

(***************************************************************************)
(* The run: ScenarioBuilder.build -> ScenarioScheduler.process.            *)
(***************************************************************************)
HostNodes == {"host1", "host2"}
SinkNodes == {"sink0", "sink1", "sink2"}
Addresses == {"a1", "a2"}
Times == 1..MaxTime

\* the application configs a run may list: sources run from the first
\* timestamp on; receivers start and stop at any time, also with stop <= start;
\* one receiver subscribes to a group no source sends to
HostConfigs ==
    [type : {"OnOff"}, node : HostNodes, address : {"a1"},
     start : {1}, stop : Times]

SinkConfigs ==
    {c \in [type : {"PacketSink"}, node : SinkNodes, address : Addresses,
            start : 1..(MaxTime - 1), stop : Times] :
        c.address = "a2" => (c.node = "sink2" /\ c.start = 1 /\ c.stop = MaxTime)}

\* a config whose type is neither OnOff nor PacketSink
OtherConfigs ==
    [type : {"UdpEcho"}, node : {"sink0"}, address : {"a1"}, start : {1}, stop : {2}]

AppConfigs == HostConfigs \cup SinkConfigs \cup OtherConfigs

\* the configs of the longer runs: a source that starts late inside island C,
\* where a Gateway may already serve receivers, next to a source outside it
LateConfigs ==
    [type : {"OnOff"}, node : {"host2"}, address : {"a1"}, start : {1}, stop : {MaxTime}]
        \cup [type : {"OnOff"}, node : {"host3"}, address : {"a1"},
               start : {2}, stop : {MaxTime}]
        \cup [type : {"PacketSink"}, node : {"sink2"}, address : {"a1"},
               start : {1, 2}, stop : 2..MaxTime]
        \cup [type : {"PacketSink"}, node : {"sink1"}, address : {"a1"},
               start : {1}, stop : {MaxTime}]

Applications ==
    UNION {[1..n -> AppConfigs] : n \in 1..MaxApps} \cup [1..(MaxApps + 1) -> LateConfigs]

\* variant: the working copy is the object it was copied from
deepcopy_shared(obj) == obj

\* copy.deepcopy(state): the working copy is a newly allocated object; objects
\* are named by their allocation number
deepcopy(obj) == obj + 1

\* the history as it reads after the TimelineState object obj got the content
\* s: an entry holds a reference to its snapshot, so it shows what the object
\* holds now
Shared(h, obj, s) ==
    [i \in DOMAIN h |-> IF h[i].object = obj THEN [h[i] EXCEPT !.snapshot = s] ELSE h[i]]

\* history[event.time] = timeline
Record(h, timeline) ==
    IF \E i \in DOMAIN h : h[i].time = timeline.time
    THEN [i \in DOMAIN h |-> IF h[i].time = timeline.time THEN timeline ELSE h[i]]
    ELSE Append(h, timeline)

VARIABLES
    application,   \* the ordered application config list (input)
    pc,            \* "schedule", "running", "release", "done" or "aborted"
    counter,       \* application.counter
    created,       \* ids returned by the factory so far (ghost)
    events,        \* the sorted list returned by _schedule
    index,         \* position of the event being processed
    state,         \* ScenarioScheduler.process: state
    snapshot,      \* the deep copy _process_timeline works on
    object,        \* the TimelineState object that copy is
    unbinds,       \* unbind calls of the last release phase (ghost)
    admissions,    \* _running_sink calls of the last activation phase (ghost)
    call,          \* the last TimelineState method called on its own (ghost)
    history        \* ScenarioScheduler.process: history, in insertion order

vars == <<application, multihop, pc, counter, created, events, index, state, snapshot,
          object, unbinds, admissions, call, history>>

Init ==
    /\ application \in Applications
    /\ multihop \in BOOLEAN
    /\ pc = "schedule"
    /\ counter = 0
    /\ created = <<>>
    /\ events = <<>>
    /\ index = 1
    /\ state = TimelineState
    /\ snapshot = TimelineState
    /\ object = 0
    /\ unbinds = <<>>
    /\ admissions = <<>>
    /\ call = <<>>
    /\ history = <<>>

\* self._schedule(): creates every Host and Sink and the sorted event list;
\* r is its result
Scheduled(r) ==
    /\ counter' = r.counter
    /\ created' = r.created
    /\ events' = IF r.ok THEN r.timeline ELSE events
    /\ pc' = IF ~r.ok THEN "aborted" ELSE IF r.timeline = <<>> THEN "done" ELSE "running"

Schedule ==
    /\ pc = "schedule"
    /\ Scheduled(_schedule(application, counter, created))
    /\ UNCHANGED <<application, multihop, index, state, snapshot, object, unbinds, admissions, call,
                   history>>

\* func(copy.deepcopy(state), event.action), first half: _running_application;
\* c is the context it ends in
Activated(c) ==
    /\ snapshot' = c.s
    /\ object' = deepcopy(object)
    /\ admissions' = c.admits
    /\ history' = Shared(history, deepcopy(object), c.s)
    /\ counter' = c.counter
    /\ created' = c.created
    /\ pc' = IF c.ok THEN "release" ELSE "aborted"

RunningApplication ==
    /\ pc = "running"
    /\ Activated(_running_application(Context(state, counter, created), events[index].action))
    /\ UNCHANGED <<application, multihop, events, index, state, unbinds, call>>

\* second half: _release_application, then
\* history[event.time] = replace(event, snapshot=state); c is the context it ends in
Released(c) ==
    /\ snapshot' = c.s
    /\ unbinds' = c.unbinds
    /\ IF c.ok
       THEN /\ state' = c.s
            /\ history' = Record(Shared(history, object, c.s),
                                  [time |-> events[index].time,
                                   action |-> events[index].action,
                                   snapshot |-> c.s,
                                   object |-> object])
            /\ index' = index + 1
            /\ pc' = IF index = Len(events) THEN "done" ELSE "running"
       ELSE /\ pc' = "aborted"
            /\ history' = Shared(history, object, c.s)
            /\ UNCHANGED <<state, index>>

ReleaseApplication ==
    /\ pc = "release"
    /\ Released(_release_application(Context(snapshot, counter, created), events[index].action))
    /\ UNCHANGED <<application, multihop, counter, created, events, object, admissions,
                   call>>

Next == Schedule \/ RunningApplication \/ ReleaseApplication

Spec == Init /\ [][Next]_vars

(***************************************************************************)
(* The methods of TimelineState called on their own, in any order and with  *)
(* any arguments, on one TimelineState object: state is its content before  *)
(* the last call, snapshot its content after it, pc tells whether the call  *)
(* returned or raised.                                                     *)
(***************************************************************************)
TestApps ==
    {HostApp(<<"host", 1>>, "host1", "a1", <<>>), HostApp(<<"host", 2>>, "host2", "a1", <<>>),
     SinkApp(<<"sink", 3>>, "sink0", "a1"), SinkApp(<<"sink", 4>>, "sink1", "a1")}

TestHostIds == {<<"host", 1>>, <<"host", 2>>}

TestSinkIds == {<<"sink", 3>>, <<"sink", 4>>}

InitPrimitives ==
    /\ application = <<>>
    /\ multihop = FALSE
    /\ pc = "primitive"
    /\ counter = 0
    /\ created = <<>>
    /\ events = <<>>
    /\ index = 1
    /\ state = TimelineState
    /\ snapshot = TimelineState
    /\ object = 0
    /\ unbinds = <<>>
    /\ admissions = <<>>
    /\ call = <<>>
    /\ history = <<>>

\* the method op was called with args and ended in the context c
Called(op, args, c) ==
    /\ state' = snapshot
    /\ snapshot' = c.s
    /\ call' = [op |-> op, args |-> args]
    /\ pc' = IF c.ok THEN "returned" ELSE "raised"
    /\ UNCHANGED <<application, multihop, counter, created, events, index, object, unbinds,
                   admissions, history>>

Primitives == {"primitive", "returned", "raised"}

CallSchedule ==
    /\ pc \in Primitives
    /\ \E app \in TestApps :
          Called("schedule", <<app>>, schedule(Context(snapshot, counter, created), app))

CallShutdown ==
    /\ pc \in Primitives
    /\ \E app \in TestApps :
          Called("shutdown", <<app>>, shutdown(Context(snapshot, counter, created), app))

CallJoin ==
    /\ pc \in Primitives
    /\ \E host_id \in TestHostIds : \E sink_id \in TestSinkIds :
          Called("join", <<host_id, sink_id>>,
                 join(Context(snapshot, counter, created), host_id, sink_id))

CallLeave ==
    /\ pc \in Primitives
    /\ \E host_id \in TestHostIds : \E sink_id \in TestSinkIds :
          Called("leave", <<host_id, sink_id>>,
                 leave(Context(snapshot, counter, created), host_id, sink_id))

NextErrors ==
    \/ Schedule
    \/ RunningApplication
    \/ ReleaseApplication
    \/ CallSchedule
    \/ CallShutdown
    \/ CallJoin
    \/ CallLeave

\* the run, and next to it the methods called on their own
InitErrors == Init \/ InitPrimitives

SpecErrors == InitErrors /\ [][NextErrors]_vars

(***************************************************************************)
(* Properties.                                                             *)
(***************************************************************************)
Snapshots == {history[i].snapshot : i \in DOMAIN history}

Ids(apps) == {apps[i].id : i \in DOMAIN apps}

\* number of Tunnels whose Relay sits on the node
TunnelsOnNode(s, node) ==
    Cardinality({i \in DOMAIN s.running_tunnels :
        /\ HasKey(s.running_relays, s.running_tunnels[i].relay_id)
        /\ Get(s.running_relays, s.running_tunnels[i].relay_id).node = node})

\* C1: whenever the release phase processes the shutdown of a Host whose sinks
\* in the working snapshot are not empty, the run fails: the Host is not
\* deregistered and no snapshot is recorded for that timestamp.
C1_HostShutdownPrecondition ==
    [][(/\ pc = "release"
        /\ \E i \in DOMAIN events[index].action.shutdown_hosts :
              LET id == events[index].action.shutdown_hosts[i].id
              IN  /\ HasKey(snapshot.running_hosts, id)
                  /\ Get(snapshot.running_hosts, id).sinks # <<>>)
       => (pc' = "aborted" /\ history' = history)]_vars

\* C2: in every recorded snapshot the source of every Tunnel's Relay resolves,
\* through zero or more Gateways, to a Host that is live in that snapshot.
C2_UpstreamIntegrity ==
    \A s \in Snapshots : \A i \in DOMAIN s.running_tunnels :
        LET r == _resolve_host(s, s.running_tunnels[i].gateway_id)
        IN  r.ok /\ HasKey(s.running_hosts, r.host.id)

\* C3: in every recorded snapshot every Tunnel's relay_id is a key of
\* running_relays and its gateway_id a key of running_gateways.
C3_TunnelEndpoints ==
    \A s \in Snapshots : \A i \in DOMAIN s.running_tunnels :
        /\ HasKey(s.running_relays, s.running_tunnels[i].relay_id)
        /\ HasKey(s.running_gateways, s.running_tunnels[i].gateway_id)

\* a cascade removed one Tunnel while another one stayed
C3_Witness ==
    \E i \in DOMAIN history : \E j \in DOMAIN history :
        /\ i < j
        /\ Len(history[i].snapshot.running_tunnels) = 2
        /\ Len(history[j].snapshot.running_tunnels) = 1

\* C4: in every recorded snapshot no node carries more Tunnels (counted by
\* the node of the Tunnel's Relay) than max_connections.
C4_RelayNodeCapacity ==
    \A s \in Snapshots : \A node \in NodeSet : TunnelsOnNode(s, node) <= max_connections

\* the unbind calls of the release phase that removed the Gateway's last Sink
LastUnbinds ==
    {k \in DOMAIN unbinds :
        /\ unbinds[k].ok
        /\ Get(unbinds[k].before.running_gateways, unbinds[k].gateway_id).sinks
               = <<unbinds[k].sink_id>>}

\* ... and those that left the Gateway with at least one other Sink
NonLastUnbinds == {k \in DOMAIN unbinds : unbinds[k].ok} \ LastUnbinds

\* C5: an unbind of the Gateway's last Sink removes exactly that Gateway, the
\* Relay named by the Gateway's Tunnel and that Tunnel; the other Gateways,
\* Relays and Tunnels and all Hosts are as before.
C5_CascadeCompleteness ==
    \A k \in LastUnbinds :
        LET b == unbinds[k].before
            a == unbinds[k].after
            gid == unbinds[k].gateway_id
            ts == {t \in Range(b.running_tunnels) : t.gateway_id = gid}
        IN  /\ Cardinality(ts) = 1
            /\ \A t \in ts :
                  /\ a.running_tunnels = SelectSeq(b.running_tunnels, LAMBDA x : x # t)
                  /\ Len(a.running_tunnels) = Len(b.running_tunnels) - 1
                  /\ a.running_relays = SelectSeq(b.running_relays, LAMBDA x : x.id # t.relay_id)
                  /\ Len(a.running_relays) = Len(b.running_relays) - 1
            /\ a.running_gateways = SelectSeq(b.running_gateways, LAMBDA x : x.id # gid)
            /\ Len(a.running_gateways) = Len(b.running_gateways) - 1
            /\ a.running_hosts = b.running_hosts

\* a last-Sink unbind made while another Gateway, Relay and Tunnel were live
C5_Witness ==
    \E k \in LastUnbinds :
        /\ Len(unbinds[k].before.running_gateways) = 2
        /\ Len(unbinds[k].before.running_tunnels) = 2
        /\ Len(unbinds[k].before.running_relays) = 2
        /\ unbinds[k].before.running_hosts # <<>>

\* C6: an unbind that leaves the Gateway another Sink removes only that Sink
\* id from that Gateway's sinks; Relays, Tunnels, Hosts, Sinks and the other
\* Gateways are as before and the Gateway stays registered.
C6_NonLastUnbindFrame ==
    \A k \in NonLastUnbinds :
        LET b == unbinds[k].before
            a == unbinds[k].after
            gid == unbinds[k].gateway_id
        IN  /\ a.running_relays = b.running_relays
            /\ a.running_tunnels = b.running_tunnels
            /\ a.running_hosts = b.running_hosts
            /\ a.running_sinks = b.running_sinks
            /\ Len(a.running_gateways) = Len(b.running_gateways)
            /\ \A i \in DOMAIN b.running_gateways :
                  IF b.running_gateways[i].id = gid
                  THEN /\ a.running_gateways[i].id = gid
                       /\ a.running_gateways[i].node = b.running_gateways[i].node
                       /\ a.running_gateways[i].relay_id = b.running_gateways[i].relay_id
                       /\ Len(a.running_gateways[i].sinks) = Len(b.running_gateways[i].sinks) - 1
                       /\ Range(a.running_gateways[i].sinks)
                              = Range(b.running_gateways[i].sinks) \ {unbinds[k].sink_id}
                  ELSE a.running_gateways[i] = b.running_gateways[i]

\* a Sink was unbound from a Gateway that kept another Sink
C6_Witness ==
    \E k \in NonLastUnbinds :
        Len(Get(unbinds[k].before.running_gateways, unbinds[k].gateway_id).sinks) = 2

\* C7: in every recorded snapshot every live Gateway has Sinks and is named by
\* a Tunnel, and no Tunnel names a Gateway without Sinks.
C7_GatewaySinksIffTunnel ==
    \A s \in Snapshots :
        /\ \A i \in DOMAIN s.running_gateways :
              /\ s.running_gateways[i].sinks # <<>>
              /\ \E j \in DOMAIN s.running_tunnels :
                    s.running_tunnels[j].gateway_id = s.running_gateways[i].id
        /\ \A j \in DOMAIN s.running_tunnels :
              HasKey(s.running_gateways, s.running_tunnels[j].gateway_id)
                  => Get(s.running_gateways, s.running_tunnels[j].gateway_id).sinks # <<>>

\* a recorded snapshot with a Gateway, taken after a Sink left a Gateway
C7_Witness ==
    /\ unbinds # <<>>
    /\ pc # "aborted"
    /\ \E s \in Snapshots : s.running_gateways # <<>>

TripleGone(s, t) ==
    /\ ~Contains(s.running_tunnels, t)
    /\ ~HasKey(s.running_relays, t.relay_id)
    /\ ~HasKey(s.running_gateways, t.gateway_id)

TriplePresent(s, t) ==
    /\ Contains(s.running_tunnels, t)
    /\ HasKey(s.running_relays, t.relay_id)
    /\ HasKey(s.running_gateways, t.gateway_id)

Overlay(s) == <<s.running_relays, s.running_gateways, s.running_tunnels>>

\* C8: from one recorded snapshot (state) to the next (state'), a Tunnel with
\* its Relay and Gateway disappears exactly when every Sink in the Gateway's
\* sinks, as they stand when the timestamp's release phase starts, is shut
\* down at that timestamp, and otherwise stays whole; a timestamp that
\* schedules and shuts down Hosts only leaves Relays, Gateways and Tunnels as
\* they were.
C8_OverlayLifecycle ==
    [][(pc = "release" /\ pc' # "aborted") =>
        LET action == events[index].action
        IN  /\ \A i \in DOMAIN state.running_tunnels :
                  LET t == state.running_tunnels[i]
                      sinks == Get(snapshot.running_gateways, t.gateway_id).sinks
                  IN  /\ TripleGone(state', t)
                            <=> Range(sinks) \subseteq Ids(action.shutdown_sinks)
                      /\ TripleGone(state', t) \/ TriplePresent(state', t)
            /\ (action.schedule_sinks = <<>> /\ action.shutdown_sinks = <<>>)
                  => Overlay(state') = Overlay(state)]_vars

\* a triple of one recorded snapshot is gone from the next, and a Host-only
\* timestamp was recorded while a Tunnel was live
C8_Witness ==
    /\ \E i \in DOMAIN history : \E j \in DOMAIN history :
          /\ j = i + 1
          /\ \E t \in Range(history[i].snapshot.running_tunnels) :
                TripleGone(history[j].snapshot, t)
    /\ \E i \in DOMAIN history :
          /\ history[i].action.schedule_sinks = <<>>
          /\ history[i].action.shutdown_sinks = <<>>
          /\ history[i].snapshot.running_tunnels # <<>>

\* C9: every id the factory returns differs from every id it returned before.
C9_AppIdUniqueness ==
    \A i \in DOMAIN created : \A j \in DOMAIN created : i # j => created[i] # created[j]

\* ids of all four roles were created and the entities torn down again
C9_Witness ==
    /\ {created[i][1] : i \in DOMAIN created} = {"host", "sink", "relay", "gateway"}
    /\ pc = "done"
    /\ state.mapping_ids = <<>>

\* every TimelineState the run holds or has recorded
TimelineStates ==
    {state, snapshot} \cup Snapshots
        \cup {unbinds[k].before : k \in DOMAIN unbinds}
        \cup {unbinds[k].after : k \in DOMAIN unbinds}

Collections == {"running_hosts", "running_sinks", "running_relays", "running_gateways"}

\* C10: the key sets of the four role collections are pairwise disjoint,
\* mapping_ids has exactly their union as keys, and mapping_ids[id] is the
\* collection that holds id, so that resolve(id) is the entity of that id.
C10_SingleRegistration ==
    \A s \in TimelineStates :
        /\ \A d \in Collections : \A e \in Collections :
              d # e => Keys(s[d]) \cap Keys(s[e]) = {}
        /\ DOMAIN s.mapping_ids = UNION {Keys(s[d]) : d \in Collections}
        /\ \A id \in DOMAIN s.mapping_ids :
              /\ s.mapping_ids[id] \in Collections
              /\ HasKey(s[s.mapping_ids[id]], id)
              /\ resolve(s, id).id = id

\* a recorded snapshot with entities of all four roles, after a removal
C10_Witness ==
    /\ \E s \in Snapshots : \A d \in Collections : s[d] # <<>>
    /\ \E k \in DOMAIN unbinds : unbinds[k].ok

\* C11: a step of the run leaves every entry the history already has as it
\* is: its time, its action and every field of its snapshot.
C11_SnapshotIndependence ==
    [][\A i \in DOMAIN history :
          i \in DOMAIN history' /\ history'[i] = history[i]]_vars

\* the run ended with a later snapshot that differs from an earlier one
\* which has Hosts and Tunnels
C11_Witness ==
    /\ pc = "done"
    /\ \E i \in DOMAIN history : \E j \in DOMAIN history :
          /\ i < j
          /\ history[i].snapshot.running_hosts # <<>>
          /\ history[i].snapshot.running_tunnels # <<>>
          /\ history[j].snapshot # history[i].snapshot

\* the distinct start and stop times of the run's configs
DistinctTimes ==
    {application[i].start : i \in DOMAIN application}
        \cup {application[i].stop : i \in DOMAIN application}

\* the Host or Sink the run created for its i-th config
EntityOf(i) ==
    IF application[i].type = "OnOff"
    THEN HostApp(created[i], application[i].node, application[i].address, <<>>)
    ELSE SinkApp(created[i], application[i].node, application[i].address)

\* the entities of the configs of the given type whose start (stop) is t
EntitiesAt(type, field, t) ==
    {EntityOf(i) : i \in {k \in DOMAIN application :
                               application[k].type = type /\ application[k][field] = t}}

\* apps lists exactly the entities of the set, each once
Lists(apps, set) == Range(apps) = set /\ Len(apps) = Cardinality(set)

\* C12: once scheduled, the events have strictly increasing times, one event
\* per distinct start/stop time, and the action of the event of time t lists
\* exactly the Hosts and Sinks that start at t and those that stop at t; the
\* history is the processed prefix of the events, one entry per processed
\* timestamp, and a run that ends without aborting has one entry per
\* distinct time.
C12_OrderedGroupedHistory ==
    /\ pc \in {"running", "release", "done"} =>
          /\ \A i \in DOMAIN events : \A j \in DOMAIN events :
                i < j => events[i].time < events[j].time
          /\ {events[i].time : i \in DOMAIN events} = DistinctTimes
          /\ \A i \in DOMAIN events :
                LET a == events[i].action
                    t == events[i].time
                IN  /\ Lists(a.schedule_hosts, EntitiesAt("OnOff", "start", t))
                    /\ Lists(a.schedule_sinks, EntitiesAt("PacketSink", "start", t))
                    /\ Lists(a.shutdown_hosts, EntitiesAt("OnOff", "stop", t))
                    /\ Lists(a.shutdown_sinks, EntitiesAt("PacketSink", "stop", t))
    /\ Len(history) = index - 1
    /\ \A i \in DOMAIN history :
          /\ i \in DOMAIN events
          /\ history[i].time = events[i].time
          /\ history[i].action = events[i].action
    /\ pc = "done" => Len(history) = Cardinality(DistinctTimes)

\* a run ended whose configs are not listed in time order and that grouped
\* two entities into one schedule action and two into one shutdown action
C12_Witness ==
    /\ pc = "done"
    /\ Len(history) >= 2
    /\ \E i \in DOMAIN application : \E j \in DOMAIN application :
          i < j /\ application[i].start > application[j].start
    /\ \E i \in DOMAIN history :
          Len(history[i].action.schedule_hosts) + Len(history[i].action.schedule_sinks) >= 2
    /\ \E i \in DOMAIN history :
          Len(history[i].action.shutdown_hosts) + Len(history[i].action.shutdown_sinks) >= 2

\* the Host or Sink of the i-th config is registered in the TimelineState
Present(s, i) ==
    IF application[i].type = "OnOff"
    THEN HasKey(s.running_hosts, created[i]) /\ s.mapping_ids[created[i]] = "running_hosts"
    ELSE HasKey(s.running_sinks, created[i]) /\ s.mapping_ids[created[i]] = "running_sinks"

Absent(s, i) ==
    /\ created[i] \notin DOMAIN s.mapping_ids
    /\ ~HasKey(s.running_hosts, created[i])
    /\ ~HasKey(s.running_sinks, created[i])

\* C13: for every config with start < stop, the snapshot recorded for a
\* timestamp T holds the config's Host or Sink when start <= T < stop and
\* does not hold it otherwise.
C13_LivenessWindow ==
    \A k \in DOMAIN history : \A i \in DOMAIN application :
        application[i].start < application[i].stop =>
            IF application[i].start <= history[k].time /\ history[k].time < application[i].stop
            THEN Present(history[k].snapshot, i)
            ELSE Absent(history[k].snapshot, i)

\* a run ended that recorded a Host before and after its stop and a Sink
\* before its start, within its window and after its stop
C13_Witness ==
    /\ pc = "done"
    /\ \E i \in DOMAIN application :
          /\ application[i].type = "OnOff"
          /\ \E k \in DOMAIN history : Present(history[k].snapshot, i)
          /\ \E k \in DOMAIN history :
                history[k].time >= application[i].stop /\ Absent(history[k].snapshot, i)
    /\ \E i \in DOMAIN application :
          /\ application[i].type = "PacketSink"
          /\ \E k \in DOMAIN history :
                history[k].time < application[i].start /\ Absent(history[k].snapshot, i)
          /\ \E k \in DOMAIN history : Present(history[k].snapshot, i)
          /\ \E k \in DOMAIN history :
                history[k].time >= application[i].stop /\ Absent(history[k].snapshot, i)

\* the Hosts that stop at the timestamp being processed, were live when its
\* activation phase came to the Sinks, and have a multicast path to the Sink
\* of the admission a
StoppingHosts(a) ==
    {h \in Range(events[index].action.shutdown_hosts) :
        /\ \/ HasKey(state.running_hosts, h.id)
           \/ Contains(events[index].action.schedule_hosts, h)
        /\ has_path(h.node, a.sink.node)}

\* the admission appended its Sink to the sinks of the Host id
JoinedTo(a, id) ==
    /\ HasKey(a.before.running_hosts, id)
    /\ HasKey(a.after.running_hosts, id)
    /\ Get(a.after.running_hosts, id).sinks
           = Append(Get(a.before.running_hosts, id).sinks, a.sink.id)

\* C14 as stated: a Sink admitted at the timestamp at which a Host H with a
\* multicast path to it stops, no live Gateway reaching it, joins H, and no
\* Relay, Gateway or Tunnel is created.
C14_JoinsTheStoppingHost ==
    pc = "release" =>
        \A k \in DOMAIN admissions :
            LET a == admissions[k]
            IN  ReachableGateways(a.before, a.sink) = <<>> =>
                    \A h \in StoppingHosts(a) :
                        JoinedTo(a, h.id) /\ Overlay(a.after) = Overlay(a.before)

\* C14 (amended): such a Sink joins the first Host in iteration order among
\* those live in the activation phase that have a multicast path to it - H
\* itself unless a Host registered before H has one too - and no Relay,
\* Gateway or Tunnel is created.
C14_ActivationBeforeRelease ==
    pc = "release" =>
        \A k \in DOMAIN admissions :
            LET a == admissions[k]
            IN  (ReachableGateways(a.before, a.sink) = <<>> /\ StoppingHosts(a) # {}) =>
                    /\ a.ok
                    /\ \A h \in StoppingHosts(a) : HasKey(a.before.running_hosts, h.id)
                    /\ JoinedTo(a, ReachableHosts(a.before, a.sink)[1].id)
                    /\ \A h \in StoppingHosts(a) :
                          (\A i \in DOMAIN a.before.running_hosts :
                              (a.before.running_hosts[i].id # h.id
                               /\ has_path(a.before.running_hosts[i].node, a.sink.node))
                                  => \E j \in 1..(i - 1) : a.before.running_hosts[j].id = h.id)
                              => JoinedTo(a, h.id)
                    /\ Overlay(a.after) = Overlay(a.before)

\* a Sink joined a Host that was live before the timestamp of the admission
\* and stops at it
C14_Witness ==
    /\ pc = "release"
    /\ \E k \in DOMAIN admissions : \E h \in StoppingHosts(admissions[k]) :
          /\ ReachableGateways(admissions[k].before, admissions[k].sink) = <<>>
          /\ JoinedTo(admissions[k], h.id)
          /\ HasKey(state.running_hosts, h.id)

\* the TimelineState b after schedule(sink)
Registered(b, sink) ==
    [b EXCEPT !.mapping_ids = (sink.id :> "running_sinks") @@ b.mapping_ids,
              !.running_sinks = Append(b.running_sinks, sink)]

\* C15: an admission that finds a live Gateway whose node has a multicast
\* path to the Sink's node succeeds and changes the TimelineState in two
\* ways only: the Sink is registered and its id is appended to the sinks of
\* the first such Gateway in iteration order. Relays, Tunnels, Hosts and the
\* other Gateways are as before, also when a live Host has a path as well.
C15_GatewayReuse ==
    \A k \in DOMAIN admissions :
        LET a == admissions[k]
            found == ReachableGateways(a.before, a.sink)
        IN  found # <<>> =>
                /\ a.ok
                /\ a.after =
                       [Registered(a.before, a.sink) EXCEPT !.running_gateways =
                           [i \in DOMAIN a.before.running_gateways |->
                               IF a.before.running_gateways[i].id = found[1].id
                               THEN [found[1] EXCEPT !.sinks = Append(found[1].sinks, a.sink.id)]
                               ELSE a.before.running_gateways[i]]]

\* a Sink was bound to a live Gateway while a live Host had a multicast path
\* to it too
C15_Witness ==
    \E k \in DOMAIN admissions :
        /\ ReachableGateways(admissions[k].before, admissions[k].sink) # <<>>
        /\ ReachableHosts(admissions[k].before, admissions[k].sink) # <<>>
        /\ admissions[k].ok
        /\ \E i \in DOMAIN admissions[k].after.running_gateways :
              Len(admissions[k].after.running_gateways[i].sinks) = 2

\* C16: an admission that finds no live Gateway with a multicast path to the
\* Sink's node but a live Host with one succeeds and changes the
\* TimelineState in two ways only: the Sink is registered and its id is
\* appended to the sinks of one Host, the first such Host in iteration
\* order; no Relay, Gateway or Tunnel is created. In a run of one Host h and
\* one Sink s with such a path, every recorded snapshot that holds both has
\* h.sinks = [s.id].
C16_DirectJoin ==
    /\ \A k \in DOMAIN admissions :
          LET a == admissions[k]
              found == ReachableHosts(a.before, a.sink)
          IN  (ReachableGateways(a.before, a.sink) = <<>> /\ found # <<>>) =>
                  /\ a.ok
                  /\ a.after =
                         [Registered(a.before, a.sink) EXCEPT !.running_hosts =
                             [i \in DOMAIN a.before.running_hosts |->
                                 IF a.before.running_hosts[i].id = found[1].id
                                 THEN [found[1] EXCEPT !.sinks = Append(found[1].sinks, a.sink.id)]
                                 ELSE a.before.running_hosts[i]]]
    /\ (/\ Len(application) = 2
        /\ pc \notin {"schedule", "aborted"}
        /\ \E h \in 1..2 : \E s \in 1..2 :
              /\ application[h].type = "OnOff"
              /\ application[s].type = "PacketSink"
              /\ has_path(application[h].node, application[s].node)) =>
           \A k \in DOMAIN history : \A h \in 1..2 : \A s \in 1..2 :
              (/\ application[h].type = "OnOff"
               /\ application[s].type = "PacketSink"
               /\ Present(history[k].snapshot, h)
               /\ Present(history[k].snapshot, s)) =>
                  /\ Get(history[k].snapshot.running_hosts, created[h]).sinks = <<created[s]>>
                  /\ Overlay(history[k].snapshot) = <<<<>>, <<>>, <<>>>>

\* the run of one Host and one Sink with a multicast path between them
\* recorded a snapshot that holds both
C16_Witness ==
    /\ Len(application) = 2
    /\ application[1].type = "OnOff"
    /\ application[2].type = "PacketSink"
    /\ has_path(application[1].node, application[2].node)
    /\ \E k \in DOMAIN history :
          /\ Present(history[k].snapshot, 1)
          /\ Present(history[k].snapshot, 2)
          /\ Get(history[k].snapshot.running_hosts, created[1]).sinks = <<created[2]>>
    /\ admissions # <<>>

\* the admission found neither a live Gateway nor a live Host with a
\* multicast path to its Sink
NeedsTunnel(a) ==
    ReachableGateways(a.before, a.sink) = <<>> /\ ReachableHosts(a.before, a.sink) = <<>>

\* C17: an admission that finds neither a live Gateway nor a live Host with a
\* multicast path to the Sink and succeeds adds exactly one Relay, one
\* Gateway and one Tunnel to those there were: the Tunnel names the new Relay
\* and the new Gateway and the Relay's source, the Gateway names the Relay,
\* and the Gateway's sinks is exactly [sink id]; Hosts are as before.
C17_TunnelConstruction ==
    \A k \in DOMAIN admissions :
        LET a == admissions[k]
            relay == Last(a.after.running_relays)
            gateway == Last(a.after.running_gateways)
            tunnel == Last(a.after.running_tunnels)
        IN  (NeedsTunnel(a) /\ a.ok) =>
                /\ a.after.running_relays = Append(a.before.running_relays, relay)
                /\ a.after.running_gateways = Append(a.before.running_gateways, gateway)
                /\ a.after.running_tunnels = Append(a.before.running_tunnels, tunnel)
                /\ relay.id \notin DOMAIN a.before.mapping_ids
                /\ gateway.id \notin DOMAIN a.before.mapping_ids
                /\ relay.id # gateway.id
                /\ tunnel = Tunnel(relay.source_id, relay.id, gateway.id)
                /\ gateway.relay_id = relay.id
                /\ gateway.sinks = <<a.sink.id>>
                /\ a.after.running_hosts = a.before.running_hosts
                /\ a.after.running_sinks = Append(a.before.running_sinks, a.sink)
                /\ DOMAIN a.after.mapping_ids =
                       DOMAIN a.before.mapping_ids \cup {a.sink.id, relay.id, gateway.id}

\* a second tunnel was built, its Relay fed by a Gateway
C17_Witness ==
    \E k \in DOMAIN admissions :
        /\ NeedsTunnel(admissions[k])
        /\ admissions[k].ok
        /\ admissions[k].before.running_tunnels # <<>>
        /\ Last(admissions[k].after.running_relays).source_id[1] = "gateway"

KnownTypes == {"OnOff", "PacketSink"}

\* the collection schedule and shutdown file the app under
CollectionOf(app) == IF app.cls = "HostApp" THEN "running_hosts" ELSE "running_sinks"

\* the last call broke the contract of the method on the content s
BreaksContract(s) ==
    IF call.op = "schedule" THEN HasKey(s[CollectionOf(call.args[1])], call.args[1].id)
    ELSE IF call.op = "shutdown" THEN ~HasKey(s[CollectionOf(call.args[1])], call.args[1].id)
    ELSE IF call.op = "join"
    THEN \/ ~HasKey(s.running_hosts, call.args[1])
         \/ Contains(Get(s.running_hosts, call.args[1]).sinks, call.args[2])
    ELSE \/ ~HasKey(s.running_hosts, call.args[1])
         \/ ~Contains(Get(s.running_hosts, call.args[1]).sinks, call.args[2])

\* what holds of every state reached by a step
HandledErrors ==
    /\ ((\E i \in DOMAIN application : application[i].type \notin KnownTypes)
            /\ pc # "schedule") =>
          /\ pc = "aborted"
          /\ events = <<>> /\ index = 1 /\ history = <<>>
          /\ state = TimelineState /\ snapshot = TimelineState
    /\ pc = "done" =>
          \A i \in DOMAIN application :
              application[i].type \in KnownTypes /\ application[i].start <= application[i].stop
    /\ pc \in {"returned", "raised"} => (pc = "raised" <=> BreaksContract(state))
    /\ pc = "raised" => snapshot = state

\* C18: a config list with a config of unknown type aborts in _schedule, before
\* any timestamp is processed and with nothing recorded; a run that ends
\* without aborting has no config of unknown type and none with stop < start
\* (whose shutdown would precede its schedule); a run that aborts takes no
\* further step and the step that aborts it records nothing; a TimelineState
\* method raises exactly when its call breaks the contract (schedule of a
\* registered id, shutdown of an id that is not registered, join of a listed
\* Sink, leave of a Sink not listed, join or leave on a Host not registered)
\* and then leaves the TimelineState as it was.
C18_ErrorsAbort ==
    [][/\ HandledErrors'
       /\ pc # "aborted"
       /\ pc' = "aborted" => history' = history]_vars

\* a run aborted in the release phase of its first timestamp, on the shutdown
\* of a Sink that starts later, after the activation phase had registered a
\* Host
C18_Witness ==
    /\ pc = "aborted"
    /\ events # <<>>
    /\ \E i \in DOMAIN application :
          /\ application[i].type = "PacketSink"
          /\ application[i].stop < application[i].start
          /\ application[i].stop = events[index].time
    /\ snapshot.running_hosts # <<>>
    /\ history = <<>>

Roles == {"host", "sink", "relay", "gateway"}

\* how many of the first i ids created carry the role of the i-th
RankInRole(i) == Cardinality({j \in 1..i : created[j][1] = created[i][1]})

\* C19 as stated: the number in an id counts the entities of its role, so the
\* k-th Host created is host#k and the k-th Sink created is sink#k.
C19_PerRoleCounter ==
    \A i \in DOMAIN created : created[i][2] = RankInRole(i)

\* C19 (amended): the number in an id comes from the one counter all roles
\* share: the i-th id created in the run, whatever its role, is <role>#i, the
\* role being that of the create_<role> call (host for an OnOff config, sink
\* for a PacketSink config, relay and gateway for the entities of a tunnel).
C19_IdFormat ==
    /\ counter = Len(created)
    /\ \A i \in DOMAIN created :
          /\ created[i][1] \in Roles
          /\ created[i][2] = i
          /\ i \in DOMAIN application =>
                created[i][1] = (IF application[i].type = "OnOff" THEN "host" ELSE "sink")
          /\ i \notin DOMAIN application => created[i][1] \in {"relay", "gateway"}
    /\ \A s \in TimelineStates :
          /\ \A i \in DOMAIN s.running_hosts : s.running_hosts[i].id[1] = "host"
          /\ \A i \in DOMAIN s.running_sinks : s.running_sinks[i].id[1] = "sink"
          /\ \A i \in DOMAIN s.running_relays : s.running_relays[i].id[1] = "relay"
          /\ \A i \in DOMAIN s.running_gateways : s.running_gateways[i].id[1] = "gateway"

\* two tunnels were built in a run of a Host and two Sinks: seven ids, the
\* second Relay being relay#6
C19_Witness ==
    /\ Len(created) = 7
    /\ created[6] = <<"relay", 6>>
    /\ created[7] = <<"gateway", 7>>
    /\ \E i \in 1..3 : created[i][1] = "host"

\* the context a _running_sink call of the log started from
Before(a) == Context(a.before, a.counter, <<>>)

\* C21: the flag is never read: whatever its value, an admission that has to
\* build a tunnel ends as the multi-hop routing ends from the TimelineState
\* and the id counter it started from.
C21_FlagNotConsulted ==
    \A k \in DOMAIN admissions :
        LET a == admissions[k]
            r == _multihop_amt_routing(schedule(Before(a), a.sink), a.sink)
        IN  NeedsTunnel(a) => (a.ok = r.ok /\ a.after = r.s)

\* with --no-multihop a tunnel was built that the single-hop routing would
\* have built on another relay node
C21_Witness ==
    /\ ~multihop
    /\ \E k \in DOMAIN admissions :
          LET a == admissions[k]
              r == _single_amt_routing(schedule(Before(a), a.sink), a.sink)
          IN  /\ NeedsTunnel(a)
              /\ a.ok
              /\ r.ok
              /\ Last(a.after.running_relays).node # Last(r.s.running_relays).node

\* the admissions of the log that built a tunnel
TunnelAdmissions == {k \in DOMAIN admissions : NeedsTunnel(admissions[k]) /\ admissions[k].ok}

\* the Host the routing of the admission chose, and its ranked candidates
ChosenHost(a) == _find_host(a.before, a.sink)

Ranked(a) == RankedRelayNodes(ChosenHost(a), a.sink)

\* the Relay the admission spawned
NewRelay(a) == Last(a.after.running_relays)

\* the ranked candidates under capacity when the admission started
AvailableRanked(a) == SelectSeq(Ranked(a), LAMBDA node : _is_available_policy(a.before, node))

\* the new Relay sits on the first ranked candidate under capacity, fed by
\* the chosen Host, and the load of that node grew by one
PlacedOnFirstAvailable(a) ==
    /\ NewRelay(a).node = AvailableRanked(a)[1]
    /\ NewRelay(a).source_id = ChosenHost(a).id
    /\ _connected_counts(a.after, NewRelay(a).node)
           = _connected_counts(a.before, NewRelay(a).node) + 1

\* C22: an admission that builds a tunnel places the new Relay, fed by the
\* chosen Host, on the first ranked candidate whose load is below
\* max_connections; and no Relay is placed on a node whose load has reached
\* max_connections unless its upstream is a Gateway - it goes to another node.
C22_CapacityAwareSelection ==
    \A k \in TunnelAdmissions :
        /\ AvailableRanked(admissions[k]) # <<>> => PlacedOnFirstAvailable(admissions[k])
        /\ \/ _connected_counts(admissions[k].before, NewRelay(admissions[k]).node)
                  < max_connections
           \/ NewRelay(admissions[k]).source_id[1] = "gateway"

RelayNodes == {node \in NodeSet : startswith(node, "relay")}

\* the (Gateway, node) pairs of the secondary search of the admission: a live
\* Gateway fed, directly or through other Gateways, by a Host of the Sink's
\* address, and a relay node that was not ranked, is under capacity and has a
\* multicast path from the Gateway's node
QualifyingPairs(a) ==
    {t \in Range(a.before.running_gateways) \X RelayNodes :
        /\ _resolve_host(a.before, t[1].id).ok
        /\ _resolve_host(a.before, t[1].id).host.address = a.sink.address
        /\ ~Contains(Ranked(a), t[2])
        /\ has_path(t[1].node, t[2])
        /\ _connected_counts(a.before, t[2]) < max_connections}

\* 2 * dist_full(N, sink) - dist_mcast(G, N)
PairCost(a, t) == 2 * graph_length(t[2], a.sink.node) - mgraph_length(t[1].node, t[2])

\* C23: an admission that builds a tunnel when every ranked candidate is at
\* capacity and some (Gateway, node) pair qualifies places the new Relay on
\* the node of a qualifying pair of least cost, with the Gateway of the pair
\* as the source_id of both the Relay and the Tunnel.
C23_SecondarySearch ==
    \A k \in TunnelAdmissions :
        LET a == admissions[k]
        IN  (AvailableRanked(a) = <<>> /\ QualifyingPairs(a) # {}) =>
                \E t \in QualifyingPairs(a) :
                    /\ \A u \in QualifyingPairs(a) : PairCost(a, t) <= PairCost(a, u)
                    /\ NewRelay(a).node = t[2]
                    /\ NewRelay(a).source_id = t[1].id
                    /\ Last(a.after.running_tunnels).source_id = t[1].id
                    /\ Last(a.after.running_tunnels).relay_id = NewRelay(a).id

\* a Relay was placed by the secondary search where two pairs qualified, and
\* not on the node listed first
C23_Witness ==
    \E k \in TunnelAdmissions :
        /\ AvailableRanked(admissions[k]) = <<>>
        /\ Cardinality(QualifyingPairs(admissions[k])) = 2
        /\ NewRelay(admissions[k]).node = "relay5"
        /\ NewRelay(admissions[k]).source_id[1] = "gateway"

\* the admissions of the log, failed ones too, whose relay discovery found
\* every ranked candidate at capacity and no qualifying pair
FallbackAdmissions ==
    {k \in DOMAIN admissions :
        /\ NeedsTunnel(admissions[k])
        /\ admissions[k].before.running_hosts # <<>>
        /\ AvailableRanked(admissions[k]) = <<>>
        /\ QualifyingPairs(admissions[k]) = {}}

\* the new Relay, its Gateway and Tunnel connect the Sink of the admission
ConnectedThrough(a) ==
    /\ a.ok
    /\ Last(a.after.running_gateways).relay_id = NewRelay(a).id
    /\ Last(a.after.running_gateways).sinks = <<a.sink.id>>
    /\ Last(a.after.running_tunnels) =
           Tunnel(NewRelay(a).source_id, NewRelay(a).id, Last(a.after.running_gateways).id)

CapableNodes(sink) == {node \in NodeSet : startswith(node, "gateway") /\ has_path(node, sink.node)}

\* the live Gateways of state b that sit on the node
GatewaysOn(b, node) == {i \in DOMAIN b.running_gateways : b.running_gateways[i].node = node}

\* C25: a successful tunnel construction serves the Sink from a Gateway on a
\* gateway-capable node that reaches the Sink in the multicast subgraph and
\* is nearest to it; had a Gateway been live on that node it is the one
\* that serves the Sink and no Gateway is added, otherwise exactly one is
\* added there; and no successful admission leaves two live Gateways on
\* one node.
C25_GatewayDiscovery ==
    \A k \in DOMAIN admissions :
        LET a == admissions[k]
        IN  a.ok =>
                /\ \A node \in NodeSet : Cardinality(GatewaysOn(a.after, node)) <= 1
                /\ NeedsTunnel(a) =>
                      \E node \in CapableNodes(a.sink) :
                          /\ \A other \in CapableNodes(a.sink) :
                                mgraph_length(node, a.sink.node)
                                    <= mgraph_length(other, a.sink.node)
                          /\ \E i \in GatewaysOn(a.after, node) :
                                Contains(a.after.running_gateways[i].sinks, a.sink.id)
                          /\ IF GatewaysOn(a.before, node) # {}
                             THEN Len(a.after.running_gateways) = Len(a.before.running_gateways)
                             ELSE /\ Len(a.after.running_gateways)
                                        = Len(a.before.running_gateways) + 1
                                  /\ Last(a.after.running_gateways).node = node

\* a tunnel was built for a Sink that two gateway-capable nodes reach, the
\* farther of them first in the node order, while another Gateway was live
C25_Witness ==
    \E k \in TunnelAdmissions :
        /\ Cardinality(CapableNodes(admissions[k].sink)) > 1
        /\ mgraph_length(GatewayNodes(admissions[k].sink)[1], admissions[k].sink.node) > 1
        /\ Last(admissions[k].after.running_gateways).sinks = <<admissions[k].sink.id>>
        /\ admissions[k].before.running_gateways # <<>>

\* the Sink id is in no live Host's sinks, in no live Gateway's sinks and
\* not in running_sinks
Released_sink(s, id) ==
    /\ \A i \in DOMAIN s.running_hosts : ~Contains(s.running_hosts[i].sinks, id)
    /\ \A i \in DOMAIN s.running_gateways : ~Contains(s.running_gateways[i].sinks, id)
    /\ ~HasKey(s.running_sinks, id)
    /\ id \notin DOMAIN s.mapping_ids

\* C26: in the snapshot recorded for a timestamp, which is the state its
\* release phase ends in, every Sink the timestamp shuts down is in no live
\* Host's sinks, in no live Gateway's sinks and not in running_sinks; the
\* unbinds of a release phase all succeed, each removes the Gateway exactly
\* when it takes the Gateway's last Sink, and when two of them name one
\* Gateway the earlier one leaves the Gateway live.
C26_SinkRelease ==
    /\ \A k \in DOMAIN history :
          \A i \in DOMAIN history[k].action.shutdown_sinks :
              Released_sink(history[k].snapshot, history[k].action.shutdown_sinks[i].id)
    /\ pc \in {"running", "done"} =>
          /\ \A i \in DOMAIN unbinds :
                /\ unbinds[i].ok
                /\ HasKey(unbinds[i].before.running_gateways, unbinds[i].gateway_id)
                /\ HasKey(unbinds[i].after.running_gateways, unbinds[i].gateway_id)
                    <=> Get(unbinds[i].before.running_gateways, unbinds[i].gateway_id).sinks
                            # <<unbinds[i].sink_id>>
          /\ \A i, j \in DOMAIN unbinds :
                (i < j /\ unbinds[i].gateway_id = unbinds[j].gateway_id) =>
                    HasKey(unbinds[i].after.running_gateways, unbinds[i].gateway_id)

\* a timestamp shut down two Sinks served by one Gateway: two unbinds named
\* the Gateway and the second one removed it together with its Tunnel
C26_Witness ==
    /\ pc \in {"running", "done"}
    /\ Len(unbinds) = 2
    /\ unbinds[1].gateway_id = unbinds[2].gateway_id
    /\ Len(unbinds[2].after.running_tunnels) < Len(unbinds[2].before.running_tunnels)
    /\ \E k \in DOMAIN history :
          /\ history[k].snapshot = state
          /\ Len(history[k].action.shutdown_sinks) = 2
          /\ \A i \in 1..2 :
                Released_sink(state, history[k].action.shutdown_sinks[i].id)

\* the TimelineStates of the run so far: the current one, the working copy,
\* the recorded snapshots and the states before and after each admission
StatesSeen ==
    {state, snapshot} \cup Snapshots
        \cup {admissions[k].before : k \in DOMAIN admissions}
        \cup {admissions[k].after : k \in DOMAIN admissions}

\* how the walk Gateway -> Tunnel -> Relay -> source ends when it may visit
\* at most depth Gateways: "host", "missing" (no Tunnel, Relay or source
\* under the id), "other" (the source is neither Host nor Gateway) or
\* "cycle" (depth Gateways were visited and the walk goes on)
RECURSIVE Walk(_, _, _)
Walk(s, gateway_id, depth) ==
    IF depth = 0 THEN "cycle"
    ELSE IF \A i \in DOMAIN s.running_tunnels : s.running_tunnels[i].gateway_id # gateway_id
    THEN "missing"
    ELSE LET tunnel == s.running_tunnels[CHOOSE i \in DOMAIN s.running_tunnels :
                           /\ s.running_tunnels[i].gateway_id = gateway_id
                           /\ \A j \in 1..(i - 1) : s.running_tunnels[j].gateway_id # gateway_id]
         IN  IF ~HasKey(s.running_relays, tunnel.relay_id) THEN "missing"
             ELSE LET source_id == Get(s.running_relays, tunnel.relay_id).source_id
                  IN  IF HasKey(s.running_hosts, source_id) THEN "host"
                      ELSE IF HasKey(s.running_gateways, source_id)
                      THEN Walk(s, source_id, depth - 1)
                      ELSE IF HasKey(s.running_relays, source_id)
                              \/ HasKey(s.running_sinks, source_id)
                      THEN "other"
                      ELSE "missing"

\* C27: in every state of the run each Relay's source id was created before
\* the Relay and each Gateway's Relay before the Gateway, so the walk from
\* any live Gateway visits no Gateway twice: it ends at a Host or at a
\* missing reference, and _resolve_host answers accordingly.
C27_ResolutionTerminates ==
    \A s \in StatesSeen :
        /\ \A i \in DOMAIN s.running_relays :
              s.running_relays[i].source_id[2] < s.running_relays[i].id[2]
        /\ \A i \in DOMAIN s.running_gateways :
              /\ s.running_gateways[i].relay_id[2] < s.running_gateways[i].id[2]
              /\ Walk(s, s.running_gateways[i].id, Len(s.running_gateways))
                     \in {"host", "missing"}
              /\ _resolve_host(s, s.running_gateways[i].id).ok
                     <=> Walk(s, s.running_gateways[i].id, Len(s.running_gateways)) = "host"

\* the walk from a live Gateway passed through another Gateway to a Host,
\* and in some state of the run a walk ended at a missing reference
C27_Witness ==
    /\ \E s \in StatesSeen : \E i \in DOMAIN s.running_gateways :
          /\ Walk(s, s.running_gateways[i].id, Len(s.running_gateways)) = "host"
          /\ HasKey(s.running_relays, s.running_gateways[i].relay_id)
          /\ HasKey(s.running_gateways,
                    Get(s.running_relays, s.running_gateways[i].relay_id).source_id)
    /\ \E s \in StatesSeen : \E i \in DOMAIN s.running_gateways :
          Walk(s, s.running_gateways[i].id, Len(s.running_gateways)) = "missing"

\* the snapshot recorded before history[k]; the empty TimelineState for k = 1
Previous(k) == IF k = 1 THEN TimelineState ELSE history[k - 1].snapshot

\* ids of the Hosts and Sinks the action names, and of its Sinks alone
NamedIds(action) ==
    Ids(action.schedule_hosts) \cup Ids(action.shutdown_hosts)
        \cup Ids(action.schedule_sinks) \cup Ids(action.shutdown_sinks)

NamedSinkIds(action) == Ids(action.schedule_sinks) \cup Ids(action.shutdown_sinks)

\* ids of the entities of the dict (running_hosts or running_gateways) that
\* list one of the ids in their sinks, in snapshot p or in snapshot n
Serving(p, n, dict, ids) ==
    {e.id : e \in {x \in Range(p[dict]) \cup Range(n[dict]) : Range(x.sinks) \cap ids # {}}}

\* Relay ids of the Gateways of p or n that have one of the ids
RelaysOf(p, n, gateway_ids) ==
    {g.relay_id : g \in {x \in Range(p.running_gateways) \cup Range(n.running_gateways) :
                              x.id \in gateway_ids}}

\* the members of the collection whose key is outside ids are the same in p and n
SameOutside(p, n, dict, key, ids) ==
    {e \in Range(p[dict]) : e[key] \notin ids} = {e \in Range(n[dict]) : e[key] \notin ids}

\* C28: from one recorded snapshot to the next, a timestamp whose action
\* names no Sink leaves running_sinks, running_relays, running_gateways and
\* running_tunnels as they were and every Host it does not name as it was;
\* and at any timestamp every Host and Sink the action does not name, every
\* Host and Gateway that lists none of the action's Sinks, and every Relay
\* and Tunnel of such a Gateway is the same in both snapshots.
C28_StepwiseFrame ==
    \A k \in DOMAIN history :
        LET p == Previous(k)
            n == history[k].snapshot
            action == history[k].action
            gateways == Serving(p, n, "running_gateways", NamedSinkIds(action))
        IN  /\ NamedSinkIds(action) = {} =>
                  /\ n.running_sinks = p.running_sinks
                  /\ Overlay(n) = Overlay(p)
                  /\ SameOutside(p, n, "running_hosts", "id", NamedIds(action))
            /\ SameOutside(p, n, "running_sinks", "id", NamedIds(action))
            /\ SameOutside(p, n, "running_hosts", "id",
                           NamedIds(action)
                               \cup Serving(p, n, "running_hosts", NamedSinkIds(action)))
            /\ SameOutside(p, n, "running_gateways", "id", gateways)
            /\ SameOutside(p, n, "running_relays", "id", RelaysOf(p, n, gateways))
            /\ SameOutside(p, n, "running_tunnels", "gateway_id", gateways)

\* a timestamp whose release removed the Tunnel of one Gateway was recorded
\* while a Host it does not name and another Gateway, which lists none of
\* its Sinks, were live before and after it
C28_Witness ==
    \E k \in DOMAIN history :
        /\ Len(history[k].snapshot.running_tunnels) < Len(Previous(k).running_tunnels)
        /\ \E h \in Range(Previous(k).running_hosts) :
              /\ h.id \notin NamedIds(history[k].action)
              /\ h \in Range(history[k].snapshot.running_hosts)
        /\ \E g \in Range(Previous(k).running_gateways) :
              /\ Range(g.sinks) \cap NamedSinkIds(history[k].action) = {}
              /\ g \in Range(history[k].snapshot.running_gateways)

\* positions of the Tunnels of s that name the Relay id, the Gateway id
TunnelsOfRelay(s, id) == {i \in DOMAIN s.running_tunnels : s.running_tunnels[i].relay_id = id}

TunnelsOfGateway(s, id) ==
    {i \in DOMAIN s.running_tunnels : s.running_tunnels[i].gateway_id = id}

\* C29: in every recorded snapshot running_relays, running_gateways and
\* running_tunnels have one size; every Tunnel names a live Relay and a live
\* Gateway; every Relay and every Gateway is in exactly one Tunnel; the
\* Gateway's relay_id is its Tunnel's relay_id and the Tunnel's source_id is
\* its Relay's source_id; and on every relay node the number of Relays, which
\* the capacity check counts, is the number of Tunnels through that node.
C29_OverlayBijection ==
    \A s \in Snapshots :
        /\ Len(s.running_relays) = Len(s.running_tunnels)
        /\ Len(s.running_gateways) = Len(s.running_tunnels)
        /\ \A i \in DOMAIN s.running_tunnels :
              /\ HasKey(s.running_relays, s.running_tunnels[i].relay_id)
              /\ HasKey(s.running_gateways, s.running_tunnels[i].gateway_id)
        /\ \A i \in DOMAIN s.running_relays :
              /\ Cardinality(TunnelsOfRelay(s, s.running_relays[i].id)) = 1
              /\ \A j \in TunnelsOfRelay(s, s.running_relays[i].id) :
                    s.running_tunnels[j].source_id = s.running_relays[i].source_id
        /\ \A i \in DOMAIN s.running_gateways :
              /\ Cardinality(TunnelsOfGateway(s, s.running_gateways[i].id)) = 1
              /\ \A j \in TunnelsOfGateway(s, s.running_gateways[i].id) :
                    s.running_tunnels[j].relay_id = s.running_gateways[i].relay_id
        /\ \A node \in RelayNodes : _connected_counts(s, node) = TunnelsOnNode(s, node)

\* a snapshot was recorded with two Tunnels through one relay node, after an
\* earlier snapshot with more Tunnels than the current state
C29_Witness ==
    /\ \E s \in Snapshots : \E node \in RelayNodes :
          _connected_counts(s, node) = 2 /\ TunnelsOnNode(s, node) = 2
    /\ \E s \in Snapshots : Len(s.running_tunnels) > Len(state.running_tunnels)

\* C30: in every recorded snapshot no two live Gateways sit on nodes joined
\* by a path of the multicast subgraph, the same node included.
C30_OneGatewayPerIsland ==
    \A s \in Snapshots :
        \A i, j \in DOMAIN s.running_gateways :
            i # j => ~has_path(s.running_gateways[i].node, s.running_gateways[j].node)

\* a snapshot holds two Gateways, on different islands, one of them on an
\* island with a second gateway-capable node and serving two Sinks, the
\* second of which was bound to it rather than given a Gateway of its own
C30_Witness ==
    \E s \in Snapshots :
        /\ Len(s.running_gateways) = 2
        /\ \E i \in DOMAIN s.running_gateways :
              /\ Len(s.running_gateways[i].sinks) = 2
              /\ \E node \in NodeSet :
                    /\ startswith(node, "gateway")
                    /\ node # s.running_gateways[i].node
                    /\ has_path(node, s.running_gateways[i].node)

\* the live Hosts and Gateways of state s that list the id in their sinks
Listing(s, id) ==
    {e \in Range(s.running_hosts) \cup Range(s.running_gateways) : Contains(e.sinks, id)}

\* the ids listed in the sinks of some live Host or Gateway of s
Attached(s) ==
    UNION {Range(e.sinks) : e \in Range(s.running_hosts) \cup Range(s.running_gateways)}

\* C31: in every state of the run a Sink id is listed by at most one entity
\* among the live Hosts and the live Gateways, and once in that list.
C31_SingleAttachment ==
    \A s \in StatesSeen : \A id \in Attached(s) :
        /\ Cardinality(Listing(s, id)) = 1
        /\ \A e \in Listing(s, id) : Cardinality({j \in DOMAIN e.sinks : e.sinks[j] = id}) = 1

\* a Sink is listed by a live Gateway and by nothing else while a live Host
\* has a multicast path to the Sink's node too
C31_Witness ==
    \E s \in StatesSeen : \E sink \in Range(s.running_sinks) :
        /\ \E g \in Range(s.running_gateways) : Contains(g.sinks, sink.id)
        /\ \E h \in Range(s.running_hosts) : has_path(h.node, sink.node)
        /\ Cardinality(Listing(s, sink.id)) = 1

\* C32: in every recorded snapshot each Sink of running_sinks is listed in
\* the sinks of a live Host or a live Gateway of that snapshot.
C32_EverySinkServed ==
    \A s \in Snapshots : \A sink \in Range(s.running_sinks) : sink.id \in Attached(s)

\* C33: in every recorded snapshot every id listed in the sinks of a live
\* Host or a live Gateway is the id of a Sink of running_sinks, registered
\* as such.
C33_NoStaleSinkReferences ==
    \A s \in Snapshots : \A id \in Attached(s) :
        /\ HasKey(s.running_sinks, id)
        /\ id \in DOMAIN s.mapping_ids
        /\ s.mapping_ids[id] = "running_sinks"

\* a timestamp shut down a Sink that a Host listed before it: the Host is
\* live after it and lists the Sinks that remain, one at least
C33_Witness ==
    \E k \in DOMAIN history : \E i \in DOMAIN Previous(k).running_hosts :
        /\ HasKey(history[k].snapshot.running_hosts, Previous(k).running_hosts[i].id)
        /\ Range(Previous(k).running_hosts[i].sinks) \cap Ids(history[k].action.shutdown_sinks) # {}
        /\ Get(history[k].snapshot.running_hosts, Previous(k).running_hosts[i].id).sinks # <<>>
        /\ Range(Get(history[k].snapshot.running_hosts, Previous(k).running_hosts[i].id).sinks)
               \cap Ids(history[k].action.shutdown_sinks) = {}

\* the Sinks of snapshot s whose ids the entity lists
SinksOf(s, e) == {sink \in Range(s.running_sinks) : Contains(e.sinks, sink.id)}

\* C34: in every recorded snapshot a Sink listed by a Host has the Host's
\* address, and a Sink listed by a Gateway has the address of the Host the
\* Gateway's upstream chain resolves to.
C34_AddressConsistency ==
    \A s \in Snapshots :
        /\ \A h \in Range(s.running_hosts) : \A sink \in SinksOf(s, h) :
              sink.address = h.address
        /\ \A g \in Range(s.running_gateways) : \A sink \in SinksOf(s, g) :
              _resolve_host(s, g.id).ok => sink.address = _resolve_host(s, g.id).host.address

\* the Hosts and Gateways that some state of the run holds under the id
Sources(id) ==
    {e \in UNION {Range(t.running_hosts) \cup Range(t.running_gateways) : t \in StatesSeen} :
        e.id = id}

\* C35: in every recorded snapshot the node of a Host has a multicast path
\* to the node of every Sink the Host lists, the node of a Gateway to the
\* node of every Sink the Gateway lists, and the node of a Relay's source
\* to the node of the Relay. The source of a Relay may be gone from the
\* snapshot: its node is read wherever the run shows the source, and the
\* Relays are those of every state of the run, so that each is looked at in
\* the activation phase that made it, next to its source.
C35_NativeReachability ==
    /\ \A s \in Snapshots :
          /\ \A h \in Range(s.running_hosts) : \A sink \in SinksOf(s, h) :
                has_path(h.node, sink.node)
          /\ \A g \in Range(s.running_gateways) : \A sink \in SinksOf(s, g) :
                has_path(g.node, sink.node)
    /\ \A s \in StatesSeen :
          \A r \in Range(s.running_relays) : \A e \in Sources(r.source_id) :
              has_path(e.node, r.node)

\* a snapshot holds a Relay fed by a live Host, a Relay fed by a live
\* Gateway, and two Gateways that list a Sink each
C35_Witness ==
    \E s \in Snapshots :
        /\ \E r \in Range(s.running_relays) : HasKey(s.running_hosts, r.source_id)
        /\ \E r \in Range(s.running_relays) : HasKey(s.running_gateways, r.source_id)
        /\ \A g \in Range(s.running_gateways) : SinksOf(s, g) # {}
        /\ Len(s.running_gateways) = 2

\* the configs, by position, that start and stop at time t
ZeroLength(t) ==
    {i \in DOMAIN application : application[i].start = t /\ application[i].stop = t}

\* C36: the snapshot recorded for a timestamp holds no Host or Sink whose
\* config starts and stops at it, and no Host or Gateway of it lists such a
\* Sink; when every Sink the timestamp names is of that kind, the Relays,
\* Gateways and Tunnels of the snapshot are those of the previous snapshot.
C36_ZeroLengthLifetime ==
    \A k \in DOMAIN history :
        /\ \A i \in ZeroLength(history[k].time) :
              /\ Absent(history[k].snapshot, i)
              /\ created[i] \notin Attached(history[k].snapshot)
        /\ Ids(history[k].action.schedule_sinks) = Ids(history[k].action.shutdown_sinks)
              => Overlay(history[k].snapshot) = Overlay(Previous(k))

\* the run recorded a timestamp at which a Host started and stopped, and a
\* later one whose only Sink started and stopped at it while a Host was
\* live: a Gateway was created for it that no recorded snapshot holds
C36_Witness ==
    /\ \E k \in DOMAIN history : \E i \in ZeroLength(history[k].time) :
          application[i].type = "OnOff"
    /\ \E k \in DOMAIN history :
          /\ Previous(k).running_hosts # <<>>
          /\ Len(history[k].action.schedule_sinks) = 1
          /\ Ids(history[k].action.schedule_sinks) = Ids(history[k].action.shutdown_sinks)
          /\ \E j \in DOMAIN created :
                /\ created[j][1] = "gateway"
                /\ created[j][2] > Len(application)
                /\ \A s \in Snapshots : ~HasKey(s.running_gateways, created[j])

====
